---- MODULE Spec2Model ----
(***************************************************************************)
(* Model of the analyser of the robot-arm script language                  *)
(* (src/analizador/analizador_lexico.py, class AnalizadorLexico).          *)
(*                                                                         *)
(* Source text, tokens, identifiers, operands and error messages are TLA+  *)
(* strings; split(), lower(), count(), the regular expressions, int() and  *)
(* str() are computed character by character.  One call of analizar is a   *)
(* run of the state machine: Analizar starts it, one action per iteration  *)
(* of the dispatcher loop of _analizar_codigo_completo, Retornar ends it.  *)
(***************************************************************************)
EXTENDS Integers, Sequences, FiniteSets, TLC

(***************************************************************************)
(* Bounds of the model.                                                    *)
(***************************************************************************)
\* Number of statements that follow the prefix of an input script.
MaxSentencias == 2

(***************************************************************************)
(* Strings.                                                                *)
(***************************************************************************)
Ch(s, k) == SubSeq(s, k, k)

Mayusculas == "ABCDEFGHIJKLMNOPQRSTUVWXYZÑ"
Minusculas == "abcdefghijklmnopqrstuvwxyzñ"
\* ASCII letters, the letters of [a-zA-Z] and of [A-Z] with re.IGNORECASE.
LetrasAscii == "ABCDEFGHIJKLMNOPQRSTUVWXYZabcdefghijklmnopqrstuvwxyz"
Digitos == "0123456789"
\* str.split() separators.
Espacios == {" ", "\t", "\n"}

\* 1-based position of character c in s, 0 when absent.
IndexOf(c, s) ==
    IF \E k \in 1..Len(s) : Ch(s, k) = c
    THEN CHOOSE k \in 1..Len(s) : Ch(s, k) = c /\ \A j \in 1..(k - 1) : Ch(s, j) # c
    ELSE 0

Contiene(s, c) == \E k \in 1..Len(s) : Ch(s, k) = c

\* str.lower() of one character.
LowerCh(c) ==
    LET k == IndexOf(c, Mayusculas) IN IF k > 0 THEN Ch(Minusculas, k) ELSE c

RECURSIVE Lower(_)
\* str.lower()
Lower(s) == IF s = "" THEN "" ELSE LowerCh(Ch(s, 1)) \o Lower(SubSeq(s, 2, Len(s)))

\* str.count(c) for a one-character c.
Count(s, c) == Cardinality({k \in 1..Len(s) : Ch(s, k) = c})

\* str.endswith(suf)
EndsWith(s, suf) ==
    /\ Len(suf) <= Len(s)
    /\ SubSeq(s, Len(s) - Len(suf) + 1, Len(s)) = suf

\* str.startswith(pre)
StartsWith(s, pre) == Len(pre) <= Len(s) /\ SubSeq(s, 1, Len(pre)) = pre

\* Positions where a word of s starts.
Inicios(s) ==
    {k \in 1..Len(s) : Ch(s, k) \notin Espacios /\ (k = 1 \/ Ch(s, k - 1) \in Espacios)}

\* Position of the last character of the word of s that starts at k.
FinDe(s, k) ==
    LET fines == {e \in k..Len(s) : e = Len(s) \/ Ch(s, e + 1) \in Espacios}
    IN  CHOOSE e \in fines : \A f \in fines : e <= f

\* str.split(): the whitespace-delimited words of s, in order.
Split(s) ==
    LET ini == Inicios(s)
        nth(m) == CHOOSE k \in ini : Cardinality({j \in ini : j < k}) = m - 1
    IN  [m \in 1..Cardinality(ini) |-> SubSeq(s, nth(m), FinDe(s, nth(m)))]

RECURSIVE SplitPorAux(_, _, _, _, _)
SplitPorAux(s, c, k, parte, acc) ==
    IF k > Len(s)
    THEN Append(acc, parte)
    ELSE IF Ch(s, k) = c
         THEN SplitPorAux(s, c, k + 1, "", Append(acc, parte))
         ELSE SplitPorAux(s, c, k + 1, parte \o Ch(s, k), acc)

\* str.split(c): the parts of s between occurrences of c (empty parts kept).
SplitPor(s, c) == SplitPorAux(s, c, 1, "", <<>>)

\* The test of the empty string alone, without strip().
EsBlancoSoloVacio(s) == s = ""

\* not entrada.strip()
EsBlanco(s) == \A k \in 1..Len(s) : Ch(s, k) \in Espacios

\* re.match(r'^[a-zA-Z0-9.={}]+$', palabra)
MatchLexico(p) ==
    /\ Len(p) > 0
    /\ \A k \in 1..Len(p) :
          \/ Contiene(LetrasAscii, Ch(p, k))
          \/ Contiene(Digitos, Ch(p, k))
          \/ Ch(p, k) \in {".", "=", "{", "}"}

\* patron_id: ^[A-Z]+[0-9]*$ with re.IGNORECASE
MatchId(p) ==
    \E n \in 1..Len(p) :
        /\ \A k \in 1..n : Contiene(LetrasAscii, Ch(p, k))
        /\ \A k \in (n + 1)..Len(p) : Contiene(Digitos, Ch(p, k))

\* patron_valor: ^\d+$
MatchValor(p) ==
    /\ Len(p) > 0
    /\ \A k \in 1..Len(p) : Contiene(Digitos, Ch(p, k))

\* Longest digit string int() converts; a longer one raises ValueError.
LimiteDigitosInt == 4300

IntExcede(s) == Len(s) > LimiteDigitosInt

RECURSIVE IntAux(_, _, _)
IntAux(s, k, acc) ==
    IF k > Len(s) THEN acc
    ELSE IntAux(s, k + 1, 10 * acc + (IndexOf(Ch(s, k), Digitos) - 1))

\* int(s) of a string of digits no longer than the limit.
ToInt(s) == IntAux(s, 1, 0)

RECURSIVE StrNat(_)
StrNat(n) ==
    IF n < 10 THEN Ch(Digitos, n + 1)
    ELSE StrNat(n \div 10) \o Ch(Digitos, (n % 10) + 1)

\* str(n) of an integer.
Str(n) == IF n < 0 THEN "-" \o StrNat(0 - n) ELSE StrNat(n)

RECURSIVE Repetido(_, _)
\* c * n
Repetido(c, n) ==
    IF n = 0 THEN ""
    ELSE LET h == Repetido(c, n \div 2)
         IN  h \o h \o (IF n % 2 = 1 THEN c ELSE "")

RECURSIVE Unir(_)
\* " ".join(ss)
Unir(ss) ==
    IF Len(ss) = 0 THEN ""
    ELSE IF Len(ss) = 1 THEN ss[1]
    ELSE ss[1] \o " " \o Unir(Tail(ss))

(***************************************************************************)
(* Data of the analyser.                                                   *)
(***************************************************************************)
Simbolo(id, metodo, parametro, valor) ==
    [id |-> id, metodo |-> metodo, parametro |-> parametro, valor |-> valor]

Cuadruplo(operador, operando1, operando2, resultado) ==
    [operador |-> operador, operando1 |-> operando1,
     operando2 |-> operando2, resultado |-> resultado]

\* self.comandos
comandos ==
    {"base", "codo", "hombro", "garra", "velocidad", "repetir",
     "base.negativo", "codo.negativo", "hombro.negativo", "garra.negativo",
     "muñeca1.negativo", "muñeca2.negativo", "muñeca3.negativo"}

\* The ranges with garra as a gripper opening of 0-85.
rangosGarra85 ==
    ("base" :> <<0, 360>>) @@ ("hombro" :> <<0, 180>>) @@ ("codo" :> <<0, 180>>) @@
    ("garra" :> <<0, 85>>) @@ ("velocidad" :> <<1, 60>>) @@ ("repetir" :> <<1, 100>>) @@
    ("base.negativo" :> <<0, 360>>) @@ ("hombro.negativo" :> <<0, 180>>) @@
    ("codo.negativo" :> <<0, 180>>) @@ ("garra.negativo" :> <<0, 360>>) @@
    ("muñeca1.negativo" :> <<0, 160>>) @@ ("muñeca2.negativo" :> <<0, 120>>) @@
    ("muñeca3.negativo" :> <<0, 400>>)

\* self.rangos
rangos ==
    ("base" :> <<0, 360>>) @@ ("hombro" :> <<0, 180>>) @@ ("codo" :> <<0, 180>>) @@
    ("garra" :> <<0, 360>>) @@ ("velocidad" :> <<1, 60>>) @@ ("repetir" :> <<1, 100>>) @@
    ("base.negativo" :> <<0, 360>>) @@ ("hombro.negativo" :> <<0, 180>>) @@
    ("codo.negativo" :> <<0, 180>>) @@ ("garra.negativo" :> <<0, 360>>) @@
    ("muñeca1.negativo" :> <<0, 160>>) @@ ("muñeca2.negativo" :> <<0, 120>>) @@
    ("muñeca3.negativo" :> <<0, 400>>)

\* self.comandos_negativos
comandos_negativos ==
    ("base.negativo" :> "base") @@ ("hombro.negativo" :> "hombro") @@
    ("codo.negativo" :> "codo") @@ ("garra.negativo" :> "garra") @@
    ("muñeca1.negativo" :> "muñeca1") @@ ("muñeca2.negativo" :> "muñeca2") @@
    ("muñeca3.negativo" :> "muñeca3")

\* The operand of a quadruple field that is not used (an em dash in the source).
Raya == "--"

\* Seconds per movement of a robot that has set no velocidad (5.0).
VelocidadInicial == 5

\* The instance fields after __init__.
InstanciaNueva ==
    [tabla_simbolos |-> <<>>, cuadruplos |-> <<>>, contador_cuadruplos |-> 0,
     errores |-> <<>>, velocidades_por_robot |-> <<>>]

\* Clears the lists and the registry but keeps the counter.
LimpiarSinContador(self) ==
    [self EXCEPT !.tabla_simbolos = <<>>, !.cuadruplos = <<>>, !.errores = <<>>,
                 !.velocidades_por_robot = <<>>]

\* The first lines of analizar: the state of the previous call is dropped.
LimpiarEstado(self) ==
    [self EXCEPT !.tabla_simbolos = <<>>, !.cuadruplos = <<>>, !.errores = <<>>,
                 !.contador_cuadruplos = 0, !.velocidades_por_robot = <<>>]

\* d[k] = v on a dict.
Poner(d, k, v) == [x \in (DOMAIN d) \cup {k} |-> IF x = k THEN v ELSE d[x]]

\* d.get(k, defecto)
Obtener(d, k, defecto) == IF k \in DOMAIN d THEN d[k] ELSE defecto

\* palabras[k], k counted from 0 as in the source.
W(palabras, k) == palabras[k + 1]

\* A handler's outcome: the instance fields, the value returned (the new
\* cursor, or -1) and the message of the exception it raised ("" if none).
Retorno(self, ret) == [self |-> self, ret |-> ret, exc |-> ""]
Excepcion(self, msg) == [self |-> self, ret |-> 0, exc |-> msg]

\* return -1 with no message recorded.
FallaSinRegistrar(self, error) == Retorno(self, -1)

\* self.errores.append(error); return -1
Falla(self, error) == Retorno([self EXCEPT !.errores = Append(@, error)], -1)
\* The check that finds every robot declared.
RobotDeclaradoSinMirar(tabla, robot_id) == TRUE

\* The same test comparing the identifiers as written.
RobotDeclaradoExacto(tabla, robot_id) ==
    \E k \in 1..Len(tabla) : tabla[k].id = robot_id /\ tabla[k].metodo = "robot"

\* any(s.id.lower() == robot_id.lower() and s.metodo == 'robot' for s in tabla)
RobotDeclarado(tabla, robot_id) ==
    \E k \in 1..Len(tabla) :
        Lower(tabla[k].id) = Lower(robot_id) /\ tabla[k].metodo = "robot"

\* The message of the ValueError int() raises on too long a digit string.
MensajeInt == "Exceeds the limit (4300 digits) for integer string conversion"

(***************************************************************************)
(* The handlers.                                                           *)
(***************************************************************************)
\* _procesar_declaracion_robot without the entry in the velocity registry.
ProcesarDeclaracionSinVelocidad(self, palabras, i) ==
    IF i + 1 >= Len(palabras)
    THEN Falla(self, "Falta identificador tras 'Robot'")
    ELSE
    LET robot_id == W(palabras, i + 1) IN
    IF ~MatchId(robot_id)
    THEN Falla(self, "Identificador inválido: '" \o robot_id \o "'")
    ELSE IF RobotDeclarado(self.tabla_simbolos, robot_id)
    THEN Falla(self, "Robot ya declarado: '" \o robot_id \o "'")
    ELSE Retorno(
           [self EXCEPT
              !.tabla_simbolos = Append(@, Simbolo(robot_id, "robot", 0, 0)),
              !.cuadruplos = Append(@, Cuadruplo("CREATE", "Robot", Raya, robot_id))],
           i + 2)

\* _procesar_declaracion_robot
ProcesarDeclaracionRobot(self, palabras, i) ==
    IF i + 1 >= Len(palabras)
    THEN Falla(self, "Falta identificador tras 'Robot'")
    ELSE
    LET robot_id == W(palabras, i + 1) IN
    IF ~MatchId(robot_id)
    THEN Falla(self, "Identificador inválido: '" \o robot_id \o "'")
    ELSE IF RobotDeclarado(self.tabla_simbolos, robot_id)
    THEN Falla(self, "Robot ya declarado: '" \o robot_id \o "'")
    ELSE Retorno(
           [self EXCEPT
              !.velocidades_por_robot = Poner(@, Lower(robot_id), VelocidadInicial),
              !.tabla_simbolos = Append(@, Simbolo(robot_id, "robot", 0, 0)),
              !.cuadruplos = Append(@, Cuadruplo("CREATE", "Robot", Raya, robot_id))],
           i + 2)

\* _procesar_cambio_velocidad
ProcesarCambioVelocidad(self, robot_id, nueva_velocidad) ==
    IF nueva_velocidad < 0
    THEN [self EXCEPT !.errores =
             Append(@, "Velocidad no puede ser negativa: " \o Str(nueva_velocidad))]
    ELSE [self EXCEPT
            !.velocidades_por_robot = Poner(@, Lower(robot_id), nueva_velocidad),
            !.cuadruplos = Append(@, Cuadruplo("SET_SPEED", robot_id, Str(nueva_velocidad),
                                         "speed_" \o Str(self.contador_cuadruplos))),
            !.contador_cuadruplos = @ + 1]
\* The same with the MOVE quadruple emitted before its SET_SPEED.
ProcesarMovimientoMoveAntes(self, robot_id, comando, valor, velocidad) ==
    [self EXCEPT
       !.cuadruplos = @ \o
          <<Cuadruplo("MOVE", robot_id, Str(valor), comando),
            Cuadruplo("SET_SPEED", robot_id, Str(velocidad),
                      "pre_speed_" \o Str(self.contador_cuadruplos))>>,
       !.contador_cuadruplos = @ + 1]

\* _procesar_movimiento_con_velocidad
ProcesarMovimientoConVelocidad(self, robot_id, comando, valor, velocidad) ==
    [self EXCEPT
       !.cuadruplos = @ \o
          <<Cuadruplo("SET_SPEED", robot_id, Str(velocidad),
                      "pre_speed_" \o Str(self.contador_cuadruplos)),
            Cuadruplo("MOVE", robot_id, Str(valor), comando)>>,
       !.contador_cuadruplos = @ + 1]

\* The same with the operand written as a minus sign and the magnitude.
ProcesarMovimientoNegativoTexto(self, robot_id, comando, valor_negativo, velocidad) ==
    [self EXCEPT
       !.cuadruplos = @ \o
          <<Cuadruplo("SET_SPEED", robot_id, Str(velocidad),
                      "pre_speed_neg_" \o Str(self.contador_cuadruplos)),
            Cuadruplo("MOVE_NEG", robot_id, "-" \o Str(0 - valor_negativo), comando)>>,
       !.contador_cuadruplos = @ + 1]

\* _procesar_movimiento_negativo
ProcesarMovimientoNegativo(self, robot_id, comando, valor_negativo, velocidad) ==
    [self EXCEPT
       !.cuadruplos = @ \o
          <<Cuadruplo("SET_SPEED", robot_id, Str(velocidad),
                      "pre_speed_neg_" \o Str(self.contador_cuadruplos)),
            Cuadruplo("MOVE_NEG", robot_id, Str(valor_negativo), comando)>>,
       !.contador_cuadruplos = @ + 1]
\* The same without the removal of the entry of the same key.
ActualizarSimboloSinQuitar(self, robot_id, comando, valor) ==
    [self EXCEPT !.tabla_simbolos = Append(@, Simbolo(robot_id, comando, 1, valor))]

\* _actualizar_simbolo
ActualizarSimbolo(self, robot_id, comando, valor) ==
    [self EXCEPT !.tabla_simbolos =
        Append(SelectSeq(@, LAMBDA s : ~(/\ Lower(s.id) = Lower(robot_id)
                                         /\ Lower(s.metodo) = Lower(comando))),
               Simbolo(robot_id, comando, 1, valor))]

\* Accepts a value only from the minimum of the range up.
EnRangoSinMaximo(normalizado, valor) ==
    normalizado \in DOMAIN rangos => rangos[normalizado][1] <= valor

\* Accepts a value only strictly inside the range.
EnRangoEstricto(normalizado, valor) ==
    normalizado \in DOMAIN rangos =>
        (rangos[normalizado][1] < valor /\ valor < rangos[normalizado][2])

\* The range validation of a command: a command with no configured range
\* takes any value, another one min_val <= valor <= max_val.
EnRango(normalizado, valor) ==
    normalizado \in DOMAIN rangos =>
        (rangos[normalizado][1] <= valor /\ valor <= rangos[normalizado][2])
\* ParsearComando with the command name kept as written.
ParsearComandoSinMinusculas(comando_completo) ==
    LET partes == SplitPor(comando_completo, ".") IN
    IF Count(comando_completo, ".") = 1
    THEN [error |-> "", robot_id |-> partes[1],
          normalizado |-> partes[2], es_negativo |-> FALSE]
    ELSE IF Count(comando_completo, ".") = 2
    THEN IF Len(partes) = 3 /\ Lower(partes[3]) = "negativo"
         THEN [error |-> "", robot_id |-> partes[1],
               normalizado |-> partes[2] \o ".negativo", es_negativo |-> TRUE]
         ELSE [error |-> "Sintaxis inválida: '" \o comando_completo \o "'",
               robot_id |-> "", normalizado |-> "", es_negativo |-> FALSE]
    ELSE [error |-> "Se esperaba ID.comando o ID.comando.negativo: '"
                     \o comando_completo \o "'",
          robot_id |-> "", normalizado |-> "", es_negativo |-> FALSE]

\* The parse of ID.comando[.negativo] at the head of _procesar_comando_robot:
\* the parts, or the syntax error.
ParsearComando(comando_completo) ==
    LET partes == SplitPor(comando_completo, ".") IN
    IF Count(comando_completo, ".") = 1
    THEN [error |-> "", robot_id |-> partes[1],
          normalizado |-> Lower(partes[2]), es_negativo |-> FALSE]
    ELSE IF Count(comando_completo, ".") = 2
    THEN IF Len(partes) = 3 /\ Lower(partes[3]) = "negativo"
         THEN [error |-> "", robot_id |-> partes[1],
               normalizado |-> Lower(partes[2]) \o ".negativo", es_negativo |-> TRUE]
         ELSE [error |-> "Sintaxis inválida: '" \o comando_completo \o "'",
               robot_id |-> "", normalizado |-> "", es_negativo |-> FALSE]
    ELSE [error |-> "Se esperaba ID.comando o ID.comando.negativo: '"
                     \o comando_completo \o "'",
          robot_id |-> "", normalizado |-> "", es_negativo |-> FALSE]

\* The tail of _procesar_comando_robot, once the value is validated: the sign
\* conversion, the quadruples and the symbol.
AplicarComando(self, robot_id, normalizado, es_negativo, valor, i) ==
    LET valor_final == IF es_negativo THEN 0 - valor ELSE valor
        comando_real == IF es_negativo THEN comandos_negativos[normalizado]
                        ELSE normalizado
        velocidad_actual ==
            Obtener(self.velocidades_por_robot, Lower(robot_id), VelocidadInicial)
        emitido ==
            IF comando_real = "velocidad"
            THEN ProcesarCambioVelocidad(self, robot_id, valor_final)
            ELSE IF es_negativo
            THEN ProcesarMovimientoNegativo(self, robot_id, comando_real,
                                            valor_final, velocidad_actual)
            ELSE ProcesarMovimientoConVelocidad(self, robot_id, comando_real,
                                                valor_final, velocidad_actual)
    IN  Retorno(ActualizarSimbolo(emitido, robot_id, comando_real, valor_final), i + 3)

\* _procesar_comando_robot
ProcesarComandoRobot(self, palabras, i) ==
    LET comando_completo == W(palabras, i)
        operador == W(palabras, i + 1)
        valor_str == W(palabras, i + 2)
        p == ParsearComando(comando_completo)
    IN
    IF p.error # "" THEN Falla(self, p.error)
    ELSE IF operador # "="
    THEN Falla(self, "Se esperaba '=' después del comando: '" \o operador \o "'")
    ELSE IF ~RobotDeclarado(self.tabla_simbolos, p.robot_id)
    THEN Falla(self, "Robot no declarado: '" \o p.robot_id \o "'")
    ELSE IF p.normalizado \notin comandos
    THEN Falla(self, "Comando inválido: '" \o p.normalizado \o "'")
    ELSE IF ~MatchValor(valor_str)
    THEN Falla(self, "Valor numérico inválido: '" \o valor_str \o "'")
    ELSE IF IntExcede(valor_str)
    THEN Excepcion(self, MensajeInt)
    ELSE
    LET valor == ToInt(valor_str) IN
    IF ~EnRango(p.normalizado, valor)
    THEN Falla(self, "Valor fuera de rango para " \o p.normalizado \o ": " \o Str(valor)
                     \o " (rango: " \o Str(rangos[p.normalizado][1]) \o "-"
                     \o Str(rangos[p.normalizado][2]) \o ")")
    ELSE AplicarComando(self, p.robot_id, p.normalizado, p.es_negativo, valor, i)

\* The parse of ID.comando[.negativo] inside a block: the parts, or the message
\* of the exception raised.
ParsearComandoBloque(comando_completo) ==
    LET partes == SplitPor(comando_completo, ".")
        invalida == [error |-> "Sintaxis inválida en bloque: " \o comando_completo,
                     robot_id |-> "", normalizado |-> "", real |-> "",
                     es_negativo |-> FALSE]
    IN
    IF Count(comando_completo, ".") = 2
    THEN IF EndsWith(Lower(comando_completo), ".negativo")
         THEN IF Len(partes) = 3
              THEN [error |-> "", robot_id |-> partes[1],
                    normalizado |-> Lower(partes[2]) \o ".negativo",
                    real |-> Lower(partes[2]), es_negativo |-> TRUE]
              ELSE invalida
         ELSE invalida
    ELSE IF Count(comando_completo, ".") = 1
    THEN IF Len(partes) = 2
         THEN [error |-> "", robot_id |-> partes[1], normalizado |-> Lower(partes[2]),
               real |-> Lower(partes[2]), es_negativo |-> FALSE]
         ELSE invalida
    ELSE invalida

\* The tail of one iteration of the block loop, once the value is validated.
AplicarComandoBloque(self, bloque_robot_id, real, es_negativo, valor) ==
    LET valor_final == IF es_negativo THEN 0 - valor ELSE valor
        velocidad_actual ==
            Obtener(self.velocidades_por_robot, Lower(bloque_robot_id), VelocidadInicial)
    IN
    IF real = "velocidad"
    THEN IF valor_final < 0
         THEN Excepcion(self, "Velocidad no puede ser negativa en bloque: "
                              \o Str(valor_final))
         ELSE Retorno(ProcesarCambioVelocidad(self, bloque_robot_id, valor_final), 0)
    ELSE IF es_negativo
    THEN Retorno(ProcesarMovimientoNegativo(self, bloque_robot_id, real,
                                            valor_final, velocidad_actual), 0)
    ELSE Retorno(ProcesarMovimientoConVelocidad(self, bloque_robot_id, real,
                                                valor_final, velocidad_actual), 0)
\* ComandoEnBloque without the test for a nested repetir.
ComandoEnBloqueSinAnidado(self, bloque, robot_id, i) ==
    LET comando_completo == W(bloque, i)
        operador == W(bloque, i + 1)
        valor_str == W(bloque, i + 2)
        p == ParsearComandoBloque(comando_completo)
    IN
    IF p.error # "" THEN Excepcion(self, p.error)
    ELSE IF operador # "="
    THEN Excepcion(self, "Se esperaba '=' en bloque: " \o comando_completo
                         \o " " \o operador)
    ELSE IF ~MatchValor(valor_str)
    THEN Excepcion(self, "Valor inválido en bloque: " \o valor_str)
    ELSE IF p.normalizado \notin comandos
    THEN Excepcion(self, "Comando inválido en bloque: " \o p.normalizado)
    ELSE IF Lower(p.robot_id) # Lower(robot_id)
    THEN Excepcion(self, "Robot diferente en bloque: " \o p.robot_id
                         \o " (esperado: " \o robot_id \o ")")
    ELSE IF IntExcede(valor_str)
    THEN Excepcion(self, MensajeInt)
    ELSE
    LET valor == ToInt(valor_str) IN
    IF ~EnRango(p.normalizado, valor)
    THEN Excepcion(self, "Valor fuera de rango en bloque: " \o p.normalizado \o " = "
                         \o Str(valor) \o " (rango: " \o Str(rangos[p.normalizado][1])
                         \o "-" \o Str(rangos[p.normalizado][2]) \o ")")
    ELSE AplicarComandoBloque(self, p.robot_id, p.real, p.es_negativo, valor)

\* One statement of a block, at bloque[i..i+2]: its validation and its effect.
ComandoEnBloque(self, bloque, robot_id, i) ==
    LET comando_completo == W(bloque, i)
        operador == W(bloque, i + 1)
        valor_str == W(bloque, i + 2)
        p == ParsearComandoBloque(comando_completo)
    IN
    IF p.error # "" THEN Excepcion(self, p.error)
    ELSE IF operador # "="
    THEN Excepcion(self, "Se esperaba '=' en bloque: " \o comando_completo
                         \o " " \o operador)
    ELSE IF ~MatchValor(valor_str)
    THEN Excepcion(self, "Valor inválido en bloque: " \o valor_str)
    ELSE IF p.normalizado \notin comandos
    THEN Excepcion(self, "Comando inválido en bloque: " \o p.normalizado)
    ELSE IF p.normalizado = "repetir"
    THEN Excepcion(self, "No se permite repetir anidado")
    ELSE IF Lower(p.robot_id) # Lower(robot_id)
    THEN Excepcion(self, "Robot diferente en bloque: " \o p.robot_id
                         \o " (esperado: " \o robot_id \o ")")
    ELSE IF IntExcede(valor_str)
    THEN Excepcion(self, MensajeInt)
    ELSE
    LET valor == ToInt(valor_str) IN
    IF ~EnRango(p.normalizado, valor)
    THEN Excepcion(self, "Valor fuera de rango en bloque: " \o p.normalizado \o " = "
                         \o Str(valor) \o " (rango: " \o Str(rangos[p.normalizado][1])
                         \o "-" \o Str(rangos[p.normalizado][2]) \o ")")
    ELSE AplicarComandoBloque(self, p.robot_id, p.real, p.es_negativo, valor)

RECURSIVE AnalizarBloqueDesde(_, _, _, _, _)
\* The loop of _analizar_bloque_con_velocidades_y_negativos from position i on,
\* with comandos_bloque statements accepted so far, and the check that follows it.
AnalizarBloqueDesde(self, bloque, robot_id, i, comandos_bloque) ==
    IF i < Len(bloque) /\ ~(i + 2 >= Len(bloque))
    THEN IF ~Contiene(W(bloque, i), ".")
         THEN AnalizarBloqueDesde(self, bloque, robot_id, i + 1, comandos_bloque)
         ELSE LET r == ComandoEnBloque(self, bloque, robot_id, i) IN
              IF r.exc # "" THEN r
              ELSE AnalizarBloqueDesde(r.self, bloque, robot_id, i + 3,
                                       comandos_bloque + 1)
    ELSE IF comandos_bloque = 0
         THEN Excepcion(self, "Bloque de repetición vacío")
         ELSE Retorno(self, 0)

\* _analizar_bloque_con_velocidades_y_negativos
AnalizarBloque(self, bloque, robot_id) == AnalizarBloqueDesde(self, bloque, robot_id, 0, 0)
RECURSIVE BuscarBloqueHastaFin(_, _, _, _)
\* The same scan with the end of the input taken as the end of the block.
BuscarBloqueHastaFin(palabras, j, nivel_llaves, bloque) ==
    IF j < Len(palabras) /\ nivel_llaves > 0
    THEN LET nivel == IF W(palabras, j) = "{" THEN nivel_llaves + 1
                      ELSE IF W(palabras, j) = "}" THEN nivel_llaves - 1
                      ELSE nivel_llaves
         IN  BuscarBloqueHastaFin(palabras, j + 1, nivel,
                          IF nivel > 0 THEN Append(bloque, W(palabras, j)) ELSE bloque)
    ELSE [j |-> j, nivel_llaves |-> 0, bloque |-> bloque]

RECURSIVE BuscarBloque(_, _, _, _)
\* The scan of _procesar_repetir for the closing brace: from position j at
\* brace depth nivel_llaves, with the body collected so far.
BuscarBloque(palabras, j, nivel_llaves, bloque) ==
    IF j < Len(palabras) /\ nivel_llaves > 0
    THEN LET nivel == IF W(palabras, j) = "{" THEN nivel_llaves + 1
                      ELSE IF W(palabras, j) = "}" THEN nivel_llaves - 1
                      ELSE nivel_llaves
         IN  BuscarBloque(palabras, j + 1, nivel,
                          IF nivel > 0 THEN Append(bloque, W(palabras, j)) ELSE bloque)
    ELSE [j |-> j, nivel_llaves |-> nivel_llaves, bloque |-> bloque]
\* The same with the loop id of END_LOOP built from the counter after the body.
EmitirBucleIdTardio(self, robot_id, repeticiones, b) ==
    LET abierto == [self EXCEPT
                      !.contador_cuadruplos = @ + 1,
                      !.cuadruplos = Append(@, Cuadruplo("BEGIN_LOOP", Str(repeticiones), Raya,
                                                "loop" \o Str(self.contador_cuadruplos)))]
        r == AnalizarBloque(abierto, b.bloque, robot_id)
    IN
    IF r.exc # ""
    THEN Falla(r.self, "Error en bloque de repetición: " \o r.exc)
    ELSE Retorno([r.self EXCEPT !.cuadruplos =
                     Append(@, Cuadruplo("END_LOOP",
                                         "loop" \o Str(r.self.contador_cuadruplos),
                                         Str(repeticiones), Raya))],
                 b.j)

\* The same with the cursor left on the closing brace.
EmitirBucleSinPasarLlave(self, robot_id, repeticiones, b) ==
    LET loop_id == "loop" \o Str(self.contador_cuadruplos)
        abierto == [self EXCEPT
                      !.contador_cuadruplos = @ + 1,
                      !.cuadruplos = Append(@, Cuadruplo("BEGIN_LOOP", Str(repeticiones),
                                                         Raya, loop_id))]
        r == AnalizarBloque(abierto, b.bloque, robot_id)
    IN
    IF r.exc # ""
    THEN Falla(r.self, "Error en bloque de repetición: " \o r.exc)
    ELSE Retorno([r.self EXCEPT !.cuadruplos =
                     Append(@, Cuadruplo("END_LOOP", loop_id, Str(repeticiones), Raya))],
                 b.j - 1)
\* The same with the closing quadruple under another operator name.
EmitirBucleOtroCierre(self, robot_id, repeticiones, b) ==
    LET loop_id == "loop" \o Str(self.contador_cuadruplos)
        abierto == [self EXCEPT
                      !.contador_cuadruplos = @ + 1,
                      !.cuadruplos = Append(@, Cuadruplo("BEGIN_LOOP", Str(repeticiones),
                                                         Raya, loop_id))]
        r == AnalizarBloque(abierto, b.bloque, robot_id)
    IN
    IF r.exc # ""
    THEN Falla(r.self, "Error en bloque de repetición: " \o r.exc)
    ELSE Retorno([r.self EXCEPT !.cuadruplos =
                     Append(@, Cuadruplo("LOOP_END", loop_id, Str(repeticiones), Raya))],
                 b.j)

\* The code of _procesar_repetir from BEGIN_LOOP on: the framing quadruples
\* around the body's, or the error of the body.
EmitirBucle(self, robot_id, repeticiones, b) ==
    LET loop_id == "loop" \o Str(self.contador_cuadruplos)
        abierto == [self EXCEPT
                      !.contador_cuadruplos = @ + 1,
                      !.cuadruplos = Append(@, Cuadruplo("BEGIN_LOOP", Str(repeticiones),
                                                         Raya, loop_id))]
        r == AnalizarBloque(abierto, b.bloque, robot_id)
    IN
    IF r.exc # ""
    THEN Falla(r.self, "Error en bloque de repetición: " \o r.exc)
    ELSE Retorno([r.self EXCEPT !.cuadruplos =
                     Append(@, Cuadruplo("END_LOOP", loop_id, Str(repeticiones), Raya))],
                 b.j)
\* _procesar_repetir without the test of the range of the count.
ProcesarRepetirSinRango(self, palabras, i) ==
    LET comando_completo == W(palabras, i)
        operador == W(palabras, i + 1)
        valor_str == W(palabras, i + 2)
        llave_abre == W(palabras, i + 3)
        partes == SplitPor(comando_completo, ".")
    IN
    IF Len(partes) # 2 \/ Lower(partes[2]) # "repetir"
    THEN Falla(self, "Se esperaba ID.repetir: '" \o comando_completo \o "'")
    ELSE IF operador # "=" \/ llave_abre # "{"
    THEN Falla(self, "Sintaxis incorrecta en repetir")
    ELSE IF ~MatchValor(valor_str)
    THEN Falla(self, "Valor de repetición inválido: '" \o valor_str \o "'")
    ELSE IF IntExcede(valor_str)
    THEN Excepcion(self, MensajeInt)
    ELSE
    LET repeticiones == ToInt(valor_str)
        b == BuscarBloque(palabras, i + 4, 1, <<>>)
    IN
    IF b.nivel_llaves > 0
    THEN Falla(self, "Falta '}' para cerrar el bloque de repetición")
    ELSE EmitirBucle(self, partes[1], repeticiones, b)

\* _procesar_repetir
ProcesarRepetir(self, palabras, i) ==
    LET comando_completo == W(palabras, i)
        operador == W(palabras, i + 1)
        valor_str == W(palabras, i + 2)
        llave_abre == W(palabras, i + 3)
        partes == SplitPor(comando_completo, ".")
    IN
    IF Len(partes) # 2 \/ Lower(partes[2]) # "repetir"
    THEN Falla(self, "Se esperaba ID.repetir: '" \o comando_completo \o "'")
    ELSE IF operador # "=" \/ llave_abre # "{"
    THEN Falla(self, "Sintaxis incorrecta en repetir")
    ELSE IF ~MatchValor(valor_str)
    THEN Falla(self, "Valor de repetición inválido: '" \o valor_str \o "'")
    ELSE IF IntExcede(valor_str)
    THEN Excepcion(self, MensajeInt)
    ELSE
    LET repeticiones == ToInt(valor_str)
        b == BuscarBloque(palabras, i + 4, 1, <<>>)
    IN
    IF ~(rangos["repetir"][1] <= repeticiones /\ repeticiones <= rangos["repetir"][2])
    THEN Falla(self, "Repeticiones fuera de rango: " \o Str(repeticiones) \o " (rango: "
                     \o Str(rangos["repetir"][1]) \o "-" \o Str(rangos["repetir"][2]) \o ")")
    ELSE IF b.nivel_llaves > 0
    THEN Falla(self, "Falta '}' para cerrar el bloque de repetición")
    ELSE EmitirBucle(self, partes[1], repeticiones, b)

(***************************************************************************)
(* Inputs.                                                                 *)
(***************************************************************************)
\* A value of the parameter entrada: a str, or an object that is not one.
Texto(t) == [tipo |-> "str", texto |-> t]
None == [tipo |-> "NoneType", texto |-> ""]

\* A digit string one digit longer than int() converts.
ValorEnorme == Repetido("9", LimiteDigitosInt + 1)

\* The scripts made of a prefix and of up to MaxSentencias statements of pool.
Scripts(prefijos, pool) ==
    {Texto(Unir(<<p>> \o ss)) :
        p \in prefijos, ss \in UNION {[1..n -> pool] : n \in 0..MaxSentencias}}

Prefijos == {"", "Robot R1", "Robot R1 Robot R2"}

Sentencias ==
    {"robot r1",
     "Robot",
     "R1.base = 90",
     "r1.GARRA.negativo = 0",
     "R1.codo.Negativo = 45",
     "R1.velocidad = 7",
     "R2.hombro = 180",
     "R1.base = 361",
     "R1.repetir = 2 { R1.base = 10 r1.velocidad = 3 }",
     "R2.repetir = 3 { r2.muñeca1.negativo = 10 }",
     "R1.repetir = 2 { R1.hombro.negativo = 90 R1.codo = 181 }",
     "R1.repetir = 2 {",
     "R1.repetir = 5",
     "R1@",
     "R1.base ="}

\* The inputs of the general specification.
Entradas == Scripts(Prefijos, Sentencias) \cup {None, Texto(" \n")}

\* Assignments at the bounds of each range and next to them.
SentenciasRangos ==
    {"R1.base = 0", "R1.base = 360", "R1.base = 361",
     "r1.HOMBRO = 0", "R1.hombro = 180", "R1.hombro = 181",
     "R1.codo = 0", "R1.codo = 180", "R1.codo = 181",
     "R1.garra = 00", "R1.garra = 360", "R1.garra = 361",
     "R1.velocidad = 0", "R1.velocidad = 1", "R1.Velocidad = 60",
     "R1.velocidad = 61", "R1.velocidad = 100", "R1.velocidad = 101",
     "R1.repetir = 1 { R1.base = 360 }",
     "R1@",
     "R1.base ="}

EntradasRangos == Scripts({"Robot R1"}, SentenciasRangos)

\* Statements on which a handler raises an exception, among others.
SentenciasFallos ==
    {"R1.base = " \o ValorEnorme,
     "R1.repetir = " \o ValorEnorme \o " { R1.base = 1 }",
     "R1.repetir = 1 { R1.codo = 5 R1.codo = " \o ValorEnorme \o " }",
     "R1.repetir = 2 { R2.base = 1 }",
     "R1.base = 90",
     "R1@",
     "R1.base ="}

EntradasFallos == Scripts({"Robot R1"}, SentenciasFallos) \cup {None, Texto("")}

\* Statements that leave something in every field of the instance.
SentenciasReuso ==
    {"R1.velocidad = 7",
     "R1.repetir = 2 { R1.codo.negativo = 45 }",
     "R1.base = 361"}

EntradasReuso ==
    Scripts({"", "Robot R1", "Robot R1 R1@", "Robot R1 R1.base ="}, SentenciasReuso)
        \cup {None, Texto(" ")}

(***************************************************************************)
(* The state machine.                                                      *)
(***************************************************************************)
VARIABLES
    tabla_simbolos,         \* self.tabla_simbolos
    cuadruplos,             \* self.cuadruplos
    contador_cuadruplos,    \* self.contador_cuadruplos
    errores,                \* self.errores
    velocidades_por_robot,  \* self.velocidades_por_robot
    entrada,                \* the argument of the call of analizar in progress
    palabras,               \* its token list
    i,                      \* the cursor of the dispatcher loop (from 0; -1 after a failure)
    pc,                     \* "idle", "loop", "fin" (the analysis returned), "done"
    resultado,              \* the dict analizar returns
    previo,                 \* how the previous call on this instance ended
    conectado,              \* robot_controller.conectado
    delay_actual,           \* robot_controller.delay_actual
    codigo,                 \* AnalysisThread.codigo
    robodk_enabled,         \* AnalysisThread.robodk_enabled
    app_pc,                 \* "listo", "hilo" (the thread runs), "senales", "ejecutor"
    boton_habilitado,       \* btn_analizar.isEnabled()
    pendientes,             \* the signals emitted by the thread and not yet delivered
    ejecutor,               \* the locals of the executor slot
    ejecutados,             \* the quadruples the executor has processed, in order
    llamadas,               \* the calls of mover_componente, in order
    rc,                     \* a RobotController driven directly, as the test scripts do
    rc_llamada              \* the last call made on rc, with the value it returned

\* The state of the window, of its thread and of the robot controller.
aplicacion == <<conectado, delay_actual, codigo, robodk_enabled, app_pc, boton_habilitado,
                pendientes, ejecutor, ejecutados, llamadas, rc, rc_llamada>>

vars == <<tabla_simbolos, cuadruplos, contador_cuadruplos, errores,
          velocidades_por_robot, entrada, palabras, i, pc, resultado, previo,
          aplicacion>>

campos == <<tabla_simbolos, cuadruplos, contador_cuadruplos, errores,
            velocidades_por_robot>>

\* delay_actual of a new controller, in seconds.
DelayInicial == 5
\* PosicionRobot(): the joint positions of a new controller, by field name.
PosicionRobot ==
    [campo \in {"base", "hombro", "codo", "muñeca1", "muñeca2", "muñeca3", "garra"} |-> 0]

\* RobotController(): the fields of a new controller that the calls below use.
RobotControllerNuevo ==
    [conectado |-> FALSE, posicion_actual |-> PosicionRobot,
     delay_actual |-> DelayInicial, historial_velocidades |-> <<>>,
     contador_movimientos |-> 0]

\* No call has been made on rc yet.
SinLlamada == [metodo |-> "", componente |-> "", valor |-> 0, ret |-> FALSE]

\* The locals of the executor slot before the slot is called.
EjecutorInactivo ==
    [pc |-> "inactivo", cuadruplos |-> <<>>, i |-> 0, velocidades_robots |-> <<>>,
     comandos_bucle |-> <<>>, indice_end_loop |-> -1, repeticiones |-> 0,
     rep |-> 0, idx_cmd |-> 0]

\* The instance fields as one record.
Self ==
    [tabla_simbolos |-> tabla_simbolos, cuadruplos |-> cuadruplos,
     contador_cuadruplos |-> contador_cuadruplos, errores |-> errores,
     velocidades_por_robot |-> velocidades_por_robot]

\* The instance fields become those of record self.
Asignar(self) ==
    /\ tabla_simbolos' = self.tabla_simbolos
    /\ cuadruplos' = self.cuadruplos
    /\ contador_cuadruplos' = self.contador_cuadruplos
    /\ errores' = self.errores
    /\ velocidades_por_robot' = self.velocidades_por_robot

\* The report with no table: the string '' of the initial dict.
SalidaVacia ==
    [registro_velocidades |-> <<>>, tabla_simbolos |-> <<>>,
     tabla_cuadruplos |-> <<>>, mensaje_exito |-> FALSE, error |-> ""]

\* _generar_salida_html, as the tables it renders: the speed registry, the
\* symbol table and the quadruple table are rendered when they have rows and
\* there is no error, the closing message when there is no error. The lines
\* of the three analysis sections are left out.
GenerarSalidaHtml(self) ==
    LET sin_errores == Len(self.errores) = 0
        tabla(filas) == IF DOMAIN filas # {} /\ sin_errores THEN filas ELSE <<>>
    IN  [registro_velocidades |-> tabla(self.velocidades_por_robot),
         tabla_simbolos |-> tabla(self.tabla_simbolos),
         tabla_cuadruplos |-> tabla(self.cuadruplos),
         mensaje_exito |-> sin_errores,
         error |-> ""]

\* The report of the except clause of analizar: one red line.
SalidaDeError(error_msg) == [SalidaVacia EXCEPT !.error = error_msg]

\* The dict resultado as analizar creates it.
ResultadoInicial ==
    [exito |-> FALSE, salida |-> SalidaVacia, tabla_simbolos |-> <<>>,
     cuadruplos |-> <<>>, errores |-> <<>>]

\* resultado.update(...) of analizar, from the instance fields self.
Compilar(self) ==
    [exito |-> Len(self.errores) = 0, salida |-> GenerarSalidaHtml(self),
     tabla_simbolos |-> self.tabla_simbolos,
     cuadruplos |-> self.cuadruplos, errores |-> self.errores]

\* The except clause of analizar, for an exception with message msg.
ErrorInesperado(self, msg) ==
    [self EXCEPT !.errores = Append(@, "Error inesperado: " \o msg)]

Init ==
    /\ tabla_simbolos = InstanciaNueva.tabla_simbolos
    /\ cuadruplos = InstanciaNueva.cuadruplos
    /\ contador_cuadruplos = InstanciaNueva.contador_cuadruplos
    /\ errores = InstanciaNueva.errores
    /\ velocidades_por_robot = InstanciaNueva.velocidades_por_robot
    /\ entrada = Texto("")
    /\ palabras = <<>>
    /\ i = 0
    /\ pc = "idle"
    /\ resultado = ResultadoInicial
    /\ previo = "ninguno"
    /\ conectado = FALSE
    /\ delay_actual = DelayInicial
    /\ codigo = ""
    /\ robodk_enabled = FALSE
    /\ app_pc = "listo"
    /\ boton_habilitado = TRUE
    /\ pendientes = <<>>
    /\ ejecutor = EjecutorInactivo
    /\ ejecutados = <<>>
    /\ llamadas = <<>>
    /\ rc = RobotControllerNuevo
    /\ rc_llamada = SinLlamada

\* The statement shape the dispatcher sees at position k: the lexical check,
\* then the tests for a declaration, a repeat block and a command.
Caso(pal, k) ==
    IF ~MatchLexico(W(pal, k)) THEN "lexico"
    ELSE IF Lower(W(pal, k)) = "robot" THEN "robot"
    ELSE IF Contiene(W(pal, k), ".") /\ k + 2 < Len(pal)
    THEN IF /\ k + 3 < Len(pal)
            /\ EndsWith(Lower(W(pal, k)), ".repetir")
            /\ W(pal, k + 1) = "="
            /\ W(pal, k + 3) = "{"
         THEN "repetir"
         ELSE "comando"
    ELSE "expresion"

\* The body of the try of one iteration of the dispatcher loop at position k:
\* the outcome of the handler the token is dispatched to, or the error of the
\* dispatcher itself.
Manejar(self, pal, k) ==
    LET caso == Caso(pal, k) IN
    IF caso = "lexico"
    THEN Falla(self, "Token inválido: '" \o W(pal, k) \o "'")
    ELSE IF caso = "robot" THEN ProcesarDeclaracionRobot(self, pal, k)
    ELSE IF caso = "repetir" THEN ProcesarRepetir(self, pal, k)
    ELSE IF caso = "comando" THEN ProcesarComandoRobot(self, pal, k)
    ELSE Falla(self, "Expresión incompleta o inválida: '" \o W(pal, k) \o "'")

\* An except clause that records nothing.
CapturarEnSilencio(r, palabra) == r.self

\* The except clause of the dispatcher loop, for outcome r of a handler.
Capturar(r, palabra) ==
    [r.self EXCEPT !.errores =
        Append(@, "Error procesando '" \o palabra \o "': " \o r.exc)]

RECURSIVE BucleDesde(_, _, _)
\* The dispatcher loop run from position k to its end: the instance fields
\* when _analizar_codigo_completo returns.
BucleDesde(self, pal, k) ==
    IF k < Len(pal)
    THEN LET r == Manejar(self, pal, k) IN
         IF r.exc # "" THEN Capturar(r, W(pal, k))
         ELSE IF r.ret = -1 THEN r.self
         ELSE BucleDesde(r.self, pal, r.ret)
    ELSE self

\* The message of the AttributeError of entrada.strip() on an object e.
MensajeStrip(e) == "'" \o e.tipo \o "' object has no attribute 'strip'"

\* analizar(e) as a function: the dict returned by a call on an instance whose
\* fields are self.
AnalizarEn(self, e) ==
    LET limpio == LimpiarEstado(self) IN
    IF e.tipo # "str"
    THEN [ResultadoInicial EXCEPT
            !.salida = SalidaDeError("Error inesperado: " \o MensajeStrip(e)),
            !.errores = ErrorInesperado(limpio, MensajeStrip(e)).errores]
    ELSE IF EsBlanco(e.texto)
    THEN Compilar([limpio EXCEPT !.errores = Append(@, "Código vacío")])
    ELSE Compilar(BucleDesde(limpio, Split(e.texto), 0))

\* analizar up to the dispatcher loop: the state of the previous call is
\* cleared; an entrada that is no str raises at entrada.strip() and the except
\* clause of analizar returns; a blank entrada is the error "Código vacío".
Analizar(e) ==
    /\ pc \in {"idle", "done"}
    /\ entrada' = e
    /\ previo' = IF pc = "idle" THEN "ninguno"
                 ELSE IF resultado.exito THEN "exito" ELSE "fallo"
    /\ IF e.tipo # "str"
       THEN LET self == ErrorInesperado(LimpiarEstado(Self), MensajeStrip(e))
            IN  /\ Asignar(self)
                /\ resultado' =
                      [ResultadoInicial EXCEPT
                         !.salida = SalidaDeError("Error inesperado: " \o MensajeStrip(e)),
                         !.errores = self.errores]
                /\ palabras' = <<>>
                /\ pc' = "done"
       ELSE IF EsBlanco(e.texto)
       THEN /\ Asignar([LimpiarEstado(Self) EXCEPT !.errores = Append(@, "Código vacío")])
            /\ resultado' = ResultadoInicial
            /\ palabras' = <<>>
            /\ pc' = "fin"
       ELSE /\ Asignar(LimpiarEstado(Self))
            /\ resultado' = ResultadoInicial
            /\ palabras' = Split(e.texto)
            /\ pc' = "loop"
    /\ i' = 0
    /\ UNCHANGED aplicacion

\* The dispatcher loop is at a token.
EnBucle == pc = "loop" /\ i < Len(palabras)

palabra_actual == W(palabras, i)

\* A dispatcher that goes on with the next token after a failure.
DespacharSigue(r) ==
    /\ IF r.exc # ""
       THEN /\ Asignar(Capturar(r, palabra_actual))
            /\ i' = i
            /\ pc' = "fin"
       ELSE /\ Asignar(r.self)
            /\ i' = IF r.ret = -1 THEN i + 1 ELSE r.ret
            /\ pc' = "loop"
    /\ UNCHANGED <<entrada, palabras, resultado, previo, aplicacion>>

\* What the dispatcher does with the outcome r of a handler: an exception is
\* caught and recorded, -1 ends the analysis, another value is the new cursor.
Despachar(r) ==
    /\ IF r.exc # ""
       THEN /\ Asignar(Capturar(r, palabra_actual))
            /\ i' = i
            /\ pc' = "fin"
       ELSE /\ Asignar(r.self)
            /\ i' = r.ret
            /\ pc' = IF r.ret = -1 THEN "fin" ELSE "loop"
    /\ UNCHANGED <<entrada, palabras, resultado, previo, aplicacion>>

\* A token outside [a-zA-Z0-9.={}]+ at the cursor.
ErrorLexico ==
    /\ EnBucle
    /\ Caso(palabras, i) = "lexico"
    /\ Despachar(Manejar(Self, palabras, i))

DeclaracionRobot ==
    /\ EnBucle
    /\ Caso(palabras, i) = "robot"
    /\ Despachar(Manejar(Self, palabras, i))

Repetir ==
    /\ EnBucle
    /\ Caso(palabras, i) = "repetir"
    /\ Despachar(Manejar(Self, palabras, i))

ComandoRobot ==
    /\ EnBucle
    /\ Caso(palabras, i) = "comando"
    /\ Despachar(Manejar(Self, palabras, i))

\* A token that starts no statement.
ErrorExpresion ==
    /\ EnBucle
    /\ Caso(palabras, i) = "expresion"
    /\ Despachar(Manejar(Self, palabras, i))

\* _analizar_codigo_completo has returned (after an error, or with the cursor
\* past the last token): analizar compiles the result and returns it.
Retornar ==
    /\ pc = "fin" \/ (pc = "loop" /\ i >= Len(palabras))
    /\ resultado' = Compilar(Self)
    /\ pc' = "done"
    /\ UNCHANGED <<campos, entrada, palabras, i, previo, aplicacion>>

\* One step of the dispatcher loop, or the return.
Paso ==
    \/ ErrorLexico
    \/ DeclaracionRobot
    \/ Repetir
    \/ ComandoRobot
    \/ ErrorExpresion
    \/ Retornar

\* One call of analizar on a fresh instance.
Next == (pc = "idle" /\ \E e \in Entradas : Analizar(e)) \/ Paso

Spec == Init /\ [][Next]_vars

\* One call on a fresh instance, on the scripts of range bounds.
NextRangos == (pc = "idle" /\ \E e \in EntradasRangos : Analizar(e)) \/ Paso

SpecRangos == Init /\ [][NextRangos]_vars

\* One call on a fresh instance, on the inputs that make a handler raise.
NextFallos == (pc = "idle" /\ \E e \in EntradasFallos : Analizar(e)) \/ Paso

SpecFallos == Init /\ [][NextFallos]_vars

\* Calls one after the other on the same instance.
NextReuso == (\E e \in EntradasReuso : Analizar(e)) \/ Paso

SpecReuso == Init /\ [][NextReuso]_vars

\* Statements with braces and with tokens outside the lexical class, at
\* dispatch, operator, value and repeat-body positions.
SentenciasTokens ==
    {"{",
     "}",
     "R1.base = 90",
     "R1.base = {",
     "R1.base @ 5",
     "R1.base = 5@",
     "R1.base? = 1",
     "Robot R#",
     "R1.repetir = 2 {",
     "R1.repetir = 101 {",
     "R1.repetir = 2 { R1.base = 1 }",
     "R1.repetir = 2 { { R1.base = 1 }",
     "R1.repetir = 2 { { R1.base = 1 } }",
     "R1.repetir = 2 { @ R1.base = 10 }",
     "R1.repetir = 3 { R1.codo = 10 $ % }",
     "R1.repetir = 3 { R1.codo = 1? }"}
EntradasTokens == Scripts({"", "Robot R1"}, SentenciasTokens)

\* One call of analizar on such a script.
NextTokens == (pc = "idle" /\ \E e \in EntradasTokens : Analizar(e)) \/ Paso

SpecTokens == Init /\ [][NextTokens]_vars

\* Scripts of velocidad and movement assignments for two robots, in blocks and
\* outside, after a declaration or after a block that came before it.
PrefijosVelocidad ==
    {"Robot R1", "Robot R1 Robot R2", "R1.repetir = 1 { r1.velocidad = 3 }"}
SentenciasVelocidad ==
    {"Robot R1",
     "R1.velocidad = 7",
     "r1.Velocidad = 60",
     "R1.velocidad = 0",
     "R2.velocidad = 9",
     "R1.base = 90",
     "r1.codo.negativo = 45",
     "R2.hombro = 10",
     "R1.repetir = 2 { R1.velocidad = 4 R1.base = 10 }",
     "r1.repetir = 2 { R1.garra.negativo = 20 }",
     "R1@",
     "R1.base ="}
EntradasVelocidad == Scripts(PrefijosVelocidad, SentenciasVelocidad)

\* One call of analizar on such a script.
NextVelocidad == (pc = "idle" /\ \E e \in EntradasVelocidad : Analizar(e)) \/ Paso

SpecVelocidad == Init /\ [][NextVelocidad]_vars

(***************************************************************************)
(* Scripts written in mixed letter case.                                   *)
(***************************************************************************)
SentenciasCasos ==
    {"R1.base = 10",
     "r1.Codo.Negativo = 45",
     "R1.VELOCIDAD = 7",
     "r1.Repetir = 2 { R1.garra = 3 r1.hombro.NEGATIVO = 4 }",
     "robot R1",
     "Robot R2",
     "R2.base = 1",
     "R1@",
     "R1.base ="}

EntradasCasos == Scripts({"Robot R1", "ROBOT r1"}, SentenciasCasos)

NextCasos == (pc = "idle" /\ \E e \in EntradasCasos : Analizar(e)) \/ Paso

SpecCasos == Init /\ [][NextCasos]_vars

\* Statements with repeat blocks: counts at and beyond the limits, empty,
\* foreign, nested and padded bodies, and a repeat without a block.
SentenciasRepetir ==
    {"R1.repetir = 1 { R1.base = 1 }",
     "r1.Repetir = 100 { R1.codo.negativo = 5 r1.velocidad = 9 }",
     "R1.repetir = 0 { R1.base = 1 }",
     "R1.repetir = 101 { R1.base = 1 }",
     "R1.repetir = 2 { }",
     "R1.repetir = 2 { R1.base = 1 R2.base = 2 }",
     "R1.repetir = 2 { R1.base = 1 R1.repetir = 2 { R1.base = 3 } }",
     "R1.repetir = 5",
     "R1.repetir = 2 { x R1.base = 1 }",
     "R1.repetir = 2 { R1.base = 1 R2.base = }",
     "R1@",
     "R1.base =",
     "R1.garra = 10"}

EntradasRepetir == Scripts({"Robot R1", "Robot R2 Robot R1"}, SentenciasRepetir)

\* One call of analizar on a script with repeat blocks.
NextRepetir == (pc = "idle" /\ \E e \in EntradasRepetir : Analizar(e)) \/ Paso

SpecRepetir == Init /\ [][NextRepetir]_vars

(***************************************************************************)
(* The robot controller.                                                   *)
(***************************************************************************)
\* self.limites_articulares
limites_articulares ==
    ("base" :> <<-360, 360>>) @@ ("hombro" :> <<-180, 180>>) @@
    ("codo" :> <<-180, 180>>) @@ ("muñeca1" :> <<-160, 160>>) @@
    ("muñeca2" :> <<-120, 120>>) @@ ("muñeca3" :> <<-400, 400>>) @@
    ("garra" :> <<-360, 360>>) @@ ("velocidad" :> <<1, 60>>)

\* The controller fields as one record.
Controlador == [conectado |-> conectado, delay_actual |-> delay_actual]

\* establecer_delay: a delay outside 1-60 is refused and the delay is kept.
establecer_delay(self, delay_segundos) ==
    IF ~(1 <= delay_segundos /\ delay_segundos <= 60)
    THEN [self |-> self, ret |-> FALSE]
    ELSE [self |-> [self EXCEPT !.delay_actual = delay_segundos], ret |-> TRUE]

\* mover_componente up to the call of RoboDK: movimiento says whether the
\* movement was registered and sent, with the delay of self.
mover_componente(self, componente, valor) ==
    LET c == Lower(componente) IN
    IF ~self.conectado
    THEN [self |-> self, movimiento |-> FALSE]
    ELSE IF c = "velocidad"
    THEN [self |-> establecer_delay(self, valor).self, movimiento |-> FALSE]
    ELSE IF c \notin DOMAIN limites_articulares
    THEN [self |-> self, movimiento |-> FALSE]
    ELSE IF ~(limites_articulares[c][1] <= valor /\ valor <= limites_articulares[c][2])
    THEN [self |-> self, movimiento |-> FALSE]
    ELSE [self |-> self, movimiento |-> TRUE]

(***************************************************************************)
(* The window and its analysis thread.                                     *)
(***************************************************************************)
RECURSIVE Strip(_)
\* str.strip()
Strip(s) ==
    IF s = "" THEN ""
    ELSE IF Ch(s, 1) \in Espacios THEN Strip(SubSeq(s, 2, Len(s)))
    ELSE IF Ch(s, Len(s)) \in Espacios THEN Strip(SubSeq(s, 1, Len(s) - 1))
    ELSE s

\* int(s) and float(s) convert s: an optionally signed string of digits.
EsNumero(s) ==
    LET d == IF StartsWith(s, "-") THEN SubSeq(s, 2, Len(s)) ELSE s
    IN  MatchValor(d) /\ ~IntExcede(d)

\* int(s), and float(s) of an integer numeral.
Numero(s) ==
    IF StartsWith(s, "-") THEN 0 - ToInt(SubSeq(s, 2, Len(s))) ELSE ToInt(s)

\* The condition under which run emits cuadruplos_ready without the test of
\* resultado['exito'].
DebeEjecutarSinExito(res, enabled) == enabled

\* The condition under which run emits cuadruplos_ready (the window is always
\* given to the thread).
DebeEjecutar(res, enabled) == res.exito /\ enabled

\* run emitting analysis_finished ahead of cuadruplos_ready.
SenalesFinPrimero(res, enabled) ==
    <<[senal |-> "analysis_finished",
       carga |-> [resultado |-> res.salida, exito |-> res.exito]]>>
    \o (IF DebeEjecutar(res, enabled)
        THEN <<[senal |-> "cuadruplos_ready", carga |-> res.cuadruplos]>>
        ELSE <<>>)

\* The signals run emits for the dict res, in order.
Senales(res, enabled) ==
    (IF DebeEjecutar(res, enabled)
     THEN <<[senal |-> "cuadruplos_ready", carga |-> res.cuadruplos]>>
     ELSE <<>>)
    \o <<[senal |-> "analysis_finished",
          carga |-> [resultado |-> res.salida, exito |-> res.exito]]>>

\* The speed of a robot that has set none, in the executor (5.0).
VelocidadPorDefecto == 5

\* velocidades_robots.get without lowering the identifier.
VelocidadSinMinusculas(velocidades_robots, robot_id) ==
    Obtener(velocidades_robots, robot_id, VelocidadPorDefecto)

\* velocidades_robots.get(robot_id.lower(), 5.0)
VelocidadActual(velocidades_robots, robot_id) ==
    Obtener(velocidades_robots, Lower(robot_id), VelocidadPorDefecto)

\* The outcome of one branch of the executor: the speeds, the controller, the
\* calls of mover_componente made and whether an exception was raised.
Efecto(vel, con, llam, exc) ==
    [velocidades_robots |-> vel, controlador |-> con, llamadas |-> llam, exc |-> exc]

\* The branches SET_SPEED, MOVE and MOVE_NEG of the executor, which are the
\* same at the top level and in a loop body; any other operator does nothing.
EjecutarComando(vel, con, q) ==
    IF q.operador = "SET_SPEED"
    THEN IF ~EsNumero(q.operando2)
         THEN Efecto(vel, con, <<>>, TRUE)
         ELSE Efecto(Poner(vel, Lower(q.operando1), Numero(q.operando2)), con, <<>>, FALSE)
    ELSE IF q.operador \in {"MOVE", "MOVE_NEG"}
    THEN IF ~EsNumero(q.operando2)
         THEN Efecto(vel, con, <<>>, TRUE)
         ELSE LET valor == Numero(q.operando2)
                  velocidad_actual == VelocidadActual(vel, q.operando1)
                  con1 == establecer_delay(con, velocidad_actual).self
                  m == mover_componente(con1, q.resultado, valor)
              IN  Efecto(vel, m.self,
                         <<[robot |-> q.operando1, componente |-> q.resultado,
                            valor |-> valor, delay |-> con1.delay_actual,
                            movimiento |-> m.movimiento]>>,
                         FALSE)
    ELSE Efecto(vel, con, <<>>, FALSE)

\* The branches of the top level of the executor other than BEGIN_LOOP.
EjecutarPrincipal(vel, con, q) ==
    IF q.operador = "CREATE"
    THEN IF q.operando1 = "Robot"
         THEN Efecto(Poner(vel, Lower(q.resultado), VelocidadPorDefecto), con, <<>>, FALSE)
         ELSE Efecto(vel, con, <<>>, FALSE)
    ELSE EjecutarComando(vel, con, q)

RECURSIVE BuscarEndLoop(_, _, _)
\* The scan for the END_LOOP of the BEGIN_LOOP before position j (from 0), with
\* nivel_bucle loops open: its index, or -1 for None.
BuscarEndLoop(cs, j, nivel_bucle) ==
    IF j >= Len(cs) THEN -1
    ELSE IF cs[j + 1].operador = "BEGIN_LOOP"
    THEN BuscarEndLoop(cs, j + 1, nivel_bucle + 1)
    ELSE IF cs[j + 1].operador = "END_LOOP"
    THEN IF nivel_bucle = 1 THEN j ELSE BuscarEndLoop(cs, j + 1, nivel_bucle - 1)
    ELSE BuscarEndLoop(cs, j + 1, nivel_bucle)

\* comandos_bucle: the quadruples appended while nivel_bucle > 0, which are
\* those after position k up to the END_LOOP, or up to the end without one.
ComandosBucle(cs, k, indice_end_loop) ==
    SubSeq(cs, k + 2, IF indice_end_loop = -1 THEN Len(cs) ELSE indice_end_loop)

\* The value given to i at the end of a loop when the jump is left out.
SaltoSinCorregir(e) == e.i

\* The value given to i at the end of a loop, before the increment at the end
\* of the while body.
SaltoTrasBucle(e) == e.indice_end_loop

\* The texts of the editor: scripts of the analyser between blanks.
PrefijosApp == {"Robot R1", "R1.repetir = 1 { r1.velocidad = 3 } Robot R1"}

SentenciasApp ==
    {"R1.velocidad = 7",
     "R1.base = 90 r1.codo.negativo = 45",
     "R1.repetir = 2 { R1.base = 10 r1.velocidad = 9 R1.garra.negativo = 20 }",
     "R1.base = 361"}

EntradasApp ==
    {" " \o e.texto \o "\n" : e \in Scripts(PrefijosApp, SentenciasApp)} \cup {" \n"}

\* toggle_robot_connection: conectar may fail; desconectar does not.  The
\* slots run in the main thread, so it is not handled while the executor runs.
ToggleConexion ==
    /\ app_pc # "ejecutor"
    /\ IF conectado THEN conectado' = FALSE ELSE conectado' \in BOOLEAN
    /\ UNCHANGED <<tabla_simbolos, cuadruplos, contador_cuadruplos, errores,
                   velocidades_por_robot, entrada, palabras, i, pc, resultado, previo,
                   delay_actual, codigo, robodk_enabled, app_pc, boton_habilitado,
                   pendientes, ejecutor, ejecutados, llamadas, rc, rc_llamada>>

\* analizar_codigo, the slot of the button's click, which an enabled button
\* delivers when the main thread is in no other slot. Blank text is refused
\* with a warning; otherwise the button is disabled and a thread with a new
\* analyser is created and started.
AnalizarCodigo(texto) ==
    /\ boton_habilitado
    /\ app_pc # "ejecutor"
    /\ IF Strip(texto) = ""
       THEN UNCHANGED vars
       ELSE /\ boton_habilitado' = FALSE
            /\ codigo' = Strip(texto)
            /\ robodk_enabled' = conectado
            /\ app_pc' = "hilo"
            /\ Asignar(InstanciaNueva)
            /\ entrada' = Texto("")
            /\ palabras' = <<>>
            /\ i' = 0
            /\ pc' = "idle"
            /\ resultado' = ResultadoInicial
            /\ previo' = "ninguno"
            /\ pendientes' = <<>>
            /\ ejecutor' = EjecutorInactivo
            /\ ejecutados' = <<>>
            /\ llamadas' = <<>>
            /\ UNCHANGED <<conectado, delay_actual, rc, rc_llamada>>

\* run calls analizar on the code of the thread.
HiloAnaliza ==
    /\ app_pc = "hilo"
    /\ pc = "idle"
    /\ Analizar(Texto(codigo))

\* One step of analizar in the thread.
HiloPaso ==
    /\ app_pc = "hilo"
    /\ Paso

\* analizar has returned: run emits its signals.
HiloTermina ==
    /\ app_pc = "hilo"
    /\ pc = "done"
    /\ pendientes' = Senales(resultado, robodk_enabled)
    /\ app_pc' = "senales"
    /\ UNCHANGED <<tabla_simbolos, cuadruplos, contador_cuadruplos, errores,
                   velocidades_por_robot, entrada, palabras, i, pc, resultado, previo,
                   conectado, delay_actual, codigo, robodk_enabled, boton_habilitado,
                   ejecutor, ejecutados, llamadas, rc, rc_llamada>>

\* The analyser, the thread and the button stay as they are.
SinCambioDeAnalisis ==
    UNCHANGED <<tabla_simbolos, cuadruplos, contador_cuadruplos, errores,
                velocidades_por_robot, entrada, palabras, i, pc, resultado, previo,
                codigo, robodk_enabled, boton_habilitado, rc, rc_llamada>>

\* The slot of cuadruplos_ready is called: it returns when the robot is not
\* connected, else it starts its while loop.
EjecutorInicia ==
    /\ app_pc = "senales"
    /\ pendientes # <<>>
    /\ Head(pendientes).senal = "cuadruplos_ready"
    /\ pendientes' = Tail(pendientes)
    /\ IF ~conectado
       THEN /\ ejecutor' = [EjecutorInactivo EXCEPT
                              !.pc = "rechazado", !.cuadruplos = Head(pendientes).carga]
            /\ app_pc' = IF Tail(pendientes) = <<>> THEN "listo" ELSE "senales"
       ELSE /\ ejecutor' = [EjecutorInactivo EXCEPT
                              !.pc = "principal", !.cuadruplos = Head(pendientes).carga]
            /\ app_pc' = "ejecutor"
    /\ SinCambioDeAnalisis
    /\ UNCHANGED <<conectado, delay_actual, ejecutados, llamadas>>

\* The executor is at quadruple i of its while loop.
EnPrincipal ==
    /\ app_pc = "ejecutor"
    /\ ejecutor.pc = "principal"
    /\ ejecutor.i < Len(ejecutor.cuadruplos)

\* A quadruple other than BEGIN_LOOP at the top level; an exception is caught
\* and the loop goes on with the next quadruple.
EjecutarCuadruplo ==
    /\ EnPrincipal
    /\ LET q == ejecutor.cuadruplos[ejecutor.i + 1]
           r == EjecutarPrincipal(ejecutor.velocidades_robots, Controlador, q)
       IN  /\ q.operador # "BEGIN_LOOP"
           /\ ejecutor' = [ejecutor EXCEPT !.velocidades_robots = r.velocidades_robots,
                                           !.i = @ + 1]
           /\ delay_actual' = r.controlador.delay_actual
           /\ ejecutados' = Append(ejecutados, ejecutor.i)
           /\ llamadas' = llamadas \o r.llamadas
    /\ SinCambioDeAnalisis
    /\ UNCHANGED <<conectado, app_pc, pendientes>>

\* BEGIN_LOOP at the top level: the scan for its END_LOOP and the body; without
\* END_LOOP the while loop is left.
EjecutarBeginLoop ==
    /\ EnPrincipal
    /\ LET q == ejecutor.cuadruplos[ejecutor.i + 1]
           fin == BuscarEndLoop(ejecutor.cuadruplos, ejecutor.i + 1, 1)
       IN  /\ q.operador = "BEGIN_LOOP"
           /\ ejecutados' = Append(ejecutados, ejecutor.i)
           /\ IF ~EsNumero(q.operando1)
              THEN ejecutor' = [ejecutor EXCEPT !.i = @ + 1]
              ELSE IF fin = -1
              THEN ejecutor' = [ejecutor EXCEPT
                                  !.repeticiones = Numero(q.operando1),
                                  !.comandos_bucle = ComandosBucle(ejecutor.cuadruplos,
                                                                   ejecutor.i, fin),
                                  !.indice_end_loop = fin,
                                  !.pc = "roto"]
              ELSE ejecutor' = [ejecutor EXCEPT
                                  !.repeticiones = Numero(q.operando1),
                                  !.comandos_bucle = ComandosBucle(ejecutor.cuadruplos,
                                                                   ejecutor.i, fin),
                                  !.indice_end_loop = fin,
                                  !.rep = 0, !.idx_cmd = 0,
                                  !.pc = "bucle"]
    /\ SinCambioDeAnalisis
    /\ UNCHANGED <<conectado, delay_actual, app_pc, pendientes, llamadas>>

\* The executor is in repetition rep of a loop.
EnRepeticion ==
    /\ app_pc = "ejecutor"
    /\ ejecutor.pc = "bucle"
    /\ ejecutor.rep < ejecutor.repeticiones

\* One quadruple of the loop body; an exception leaves the loop and is caught
\* at the top level.
EjecutarEnBucle ==
    /\ EnRepeticion
    /\ ejecutor.idx_cmd < Len(ejecutor.comandos_bucle)
    /\ LET q == ejecutor.comandos_bucle[ejecutor.idx_cmd + 1]
           r == EjecutarComando(ejecutor.velocidades_robots, Controlador, q)
       IN  /\ ejecutor' =
                 IF r.exc
                 THEN [ejecutor EXCEPT !.pc = "principal", !.i = @ + 1]
                 ELSE [ejecutor EXCEPT !.velocidades_robots = r.velocidades_robots,
                                       !.idx_cmd = @ + 1]
           /\ delay_actual' = r.controlador.delay_actual
           /\ ejecutados' = Append(ejecutados, ejecutor.i + 1 + ejecutor.idx_cmd)
           /\ llamadas' = llamadas \o r.llamadas
    /\ SinCambioDeAnalisis
    /\ UNCHANGED <<conectado, app_pc, pendientes>>

\* The body is done: the next repetition.
SiguienteRepeticion ==
    /\ EnRepeticion
    /\ ejecutor.idx_cmd >= Len(ejecutor.comandos_bucle)
    /\ ejecutor' = [ejecutor EXCEPT !.rep = @ + 1, !.idx_cmd = 0]
    /\ SinCambioDeAnalisis
    /\ UNCHANGED <<conectado, delay_actual, app_pc, pendientes, ejecutados, llamadas>>

\* The repetitions are done: the while loop goes on after the END_LOOP.
SalirDeBucle ==
    /\ app_pc = "ejecutor"
    /\ ejecutor.pc = "bucle"
    /\ ejecutor.rep >= ejecutor.repeticiones
    /\ ejecutor' = [ejecutor EXCEPT !.pc = "principal", !.i = SaltoTrasBucle(ejecutor) + 1]
    /\ SinCambioDeAnalisis
    /\ UNCHANGED <<conectado, delay_actual, app_pc, pendientes, ejecutados, llamadas>>

\* The while loop is over and the slot returns.
EjecutorTermina ==
    /\ app_pc = "ejecutor"
    /\ \/ ejecutor.pc = "roto"
       \/ ejecutor.pc = "principal" /\ ejecutor.i >= Len(ejecutor.cuadruplos)
    /\ ejecutor' = [ejecutor EXCEPT !.pc = "fin"]
    /\ app_pc' = IF pendientes = <<>> THEN "listo" ELSE "senales"
    /\ SinCambioDeAnalisis
    /\ UNCHANGED <<conectado, delay_actual, pendientes, ejecutados, llamadas>>

\* on_analysis_finished: the report of the signal is displayed and the button
\* is enabled again.
EnAnalisisTerminado ==
    /\ app_pc = "senales"
    /\ pendientes # <<>>
    /\ Head(pendientes).senal = "analysis_finished"
    /\ pendientes' = Tail(pendientes)
    /\ boton_habilitado' = TRUE
    /\ app_pc' = IF Tail(pendientes) = <<>> THEN "listo" ELSE "senales"
    /\ UNCHANGED <<tabla_simbolos, cuadruplos, contador_cuadruplos, errores,
                   velocidades_por_robot, entrada, palabras, i, pc, resultado, previo,
                   conectado, delay_actual, codigo, robodk_enabled, ejecutor,
                   ejecutados, llamadas, rc, rc_llamada>>

\* The window: the user connects, disconnects and analyses; the thread and the
\* slots run.
NextApp ==
    \/ ToggleConexion
    \/ \E texto \in EntradasApp : AnalizarCodigo(texto)
    \/ HiloAnaliza
    \/ HiloPaso
    \/ HiloTermina
    \/ EjecutorInicia
    \/ EjecutarCuadruplo
    \/ EjecutarBeginLoop
    \/ EjecutarEnBucle
    \/ SiguienteRepeticion
    \/ SalirDeBucle
    \/ EjecutorTermina
    \/ EnAnalisisTerminado

SpecApp == Init /\ [][NextApp]_vars

(***************************************************************************)
(* The robot controller on its own, in simulation mode (RoboDK is not      *)
(* installed: ROBODK_AVAILABLE is False and self.robot stays None).        *)
(***************************************************************************)
\* conectar without RoboDK: the controller is connected at once.
ConectarSim(self) == [self |-> [self EXCEPT !.conectado = TRUE], ret |-> TRUE]

\* desconectar: a connected controller is disconnected; the positions, the
\* delay and the history stay.
DesconectarSim(self) ==
    IF self.conectado THEN [self EXCEPT !.conectado = FALSE] ELSE self
\* establecer_delay with 0 accepted as a delay.
EstablecerDelayDesdeCero(self, delay_segundos) ==
    IF ~(0 <= delay_segundos /\ delay_segundos <= 60)
    THEN [self |-> self, ret |-> FALSE]
    ELSE [self |-> [self EXCEPT
                      !.delay_actual = delay_segundos,
                      !.historial_velocidades =
                          Append(@, <<"Cambio de velocidad", self.delay_actual,
                                      delay_segundos>>)],
          ret |-> TRUE]

\* establecer_delay with its record in the history; an entry of the history
\* is the tuple of the values its text is formatted from.
EstablecerDelaySim(self, delay_segundos) ==
    IF ~(1 <= delay_segundos /\ delay_segundos <= 60)
    THEN [self |-> self, ret |-> FALSE]
    ELSE [self |-> [self EXCEPT
                      !.delay_actual = delay_segundos,
                      !.historial_velocidades =
                          Append(@, <<"Cambio de velocidad", self.delay_actual,
                                      delay_segundos>>)],
          ret |-> TRUE]

\* _actualizar_posicion_simulada
ActualizarPosicionSimulada(self, componente, valor) ==
    IF componente \in {"base", "hombro", "codo", "muñeca1", "muñeca2", "muñeca3"}
    THEN [self EXCEPT !.posicion_actual[componente] = valor]
    ELSE IF componente = "garra"
    THEN [self EXCEPT !.posicion_actual["garra"] = valor,
                      !.posicion_actual["muñeca3"] = valor]
    ELSE self

\* _mover_articulacion_con_soporte_negativo, simulation branch.
MoverArticulacionSim(self, componente, valor) ==
    [self |-> ActualizarPosicionSimulada(self, componente, valor), ret |-> TRUE]

\* _mover_garra_con_soporte_negativo, simulation branch.
MoverGarraSim(self, rotacion_objetivo) ==
    [self |-> [self EXCEPT !.posicion_actual["garra"] = rotacion_objetivo,
                           !.posicion_actual["muñeca3"] = rotacion_objetivo],
     ret |-> TRUE]
\* mover_componente without the test of the connection.
MoverComponenteSinConexion(self, componente_dado, valor) ==
    LET componente == Lower(componente_dado) IN
    IF componente = "velocidad"
    THEN EstablecerDelaySim(self, valor)
    ELSE IF componente \notin DOMAIN limites_articulares
    THEN [self |-> self, ret |-> FALSE]
    ELSE IF ~(limites_articulares[componente][1] <= valor
              /\ valor <= limites_articulares[componente][2])
    THEN [self |-> self, ret |-> FALSE]
    ELSE
    LET contado == [self EXCEPT
                      !.contador_movimientos = @ + 1,
                      !.historial_velocidades =
                          Append(@, <<"Movimiento", self.contador_movimientos + 1,
                                      componente, valor, self.delay_actual>>)]
    IN  IF componente = "garra"
        THEN MoverGarraSim(contado, valor)
        ELSE MoverArticulacionSim(contado, componente, valor)

\* mover_componente with the counter, the history and the simulated movement.
MoverComponenteSim(self, componente_dado, valor) ==
    LET componente == Lower(componente_dado) IN
    IF ~self.conectado
    THEN [self |-> self, ret |-> FALSE]
    ELSE IF componente = "velocidad"
    THEN EstablecerDelaySim(self, valor)
    ELSE IF componente \notin DOMAIN limites_articulares
    THEN [self |-> self, ret |-> FALSE]
    ELSE IF ~(limites_articulares[componente][1] <= valor
              /\ valor <= limites_articulares[componente][2])
    THEN [self |-> self, ret |-> FALSE]
    ELSE
    LET contado == [self EXCEPT
                      !.contador_movimientos = @ + 1,
                      !.historial_velocidades =
                          Append(@, <<"Movimiento", self.contador_movimientos + 1,
                                      componente, valor, self.delay_actual>>)]
    IN  IF componente = "garra"
        THEN MoverGarraSim(contado, valor)
        ELSE MoverArticulacionSim(contado, componente, valor)

\* The longest history of the calls below.
MaxHistorial == 2

\* The components and the values of the calls.
ComponentesSim == {"base", "Garra", "muñeca3", "velocidad", "pinza"}
ValoresSim == {-361, 10, 61}
DelaysSim == {0, 1, 60, 61}

\* The analyzer and the window stay as they are.
SinCambioDeVentana ==
    UNCHANGED <<tabla_simbolos, cuadruplos, contador_cuadruplos, errores,
                velocidades_por_robot, entrada, palabras, i, pc, resultado, previo,
                conectado, delay_actual, codigo, robodk_enabled, app_pc,
                boton_habilitado, pendientes, ejecutor, ejecutados, llamadas>>

LlamaConectar ==
    /\ rc' = ConectarSim(rc).self
    /\ rc_llamada' = [metodo |-> "conectar", componente |-> "", valor |-> 0,
                      ret |-> ConectarSim(rc).ret]
    /\ SinCambioDeVentana

LlamaDesconectar ==
    /\ rc' = DesconectarSim(rc)
    /\ rc_llamada' = [metodo |-> "desconectar", componente |-> "", valor |-> 0,
                      ret |-> FALSE]
    /\ SinCambioDeVentana

LlamaEstablecerDelay(d) ==
    /\ Len(rc.historial_velocidades) < MaxHistorial
    /\ rc' = EstablecerDelaySim(rc, d).self
    /\ rc_llamada' = [metodo |-> "establecer_delay", componente |-> "", valor |-> d,
                      ret |-> EstablecerDelaySim(rc, d).ret]
    /\ SinCambioDeVentana

LlamaMoverComponente(c, v) ==
    /\ Len(rc.historial_velocidades) < MaxHistorial
    /\ rc' = MoverComponenteSim(rc, c, v).self
    /\ rc_llamada' = [metodo |-> "mover_componente", componente |-> c, valor |-> v,
                      ret |-> MoverComponenteSim(rc, c, v).ret]
    /\ SinCambioDeVentana

\* Any sequence of calls on the controller.
NextControlador ==
    \/ LlamaConectar
    \/ LlamaDesconectar
    \/ \E d \in DelaysSim : LlamaEstablecerDelay(d)
    \/ \E c \in ComponentesSim, v \in ValoresSim : LlamaMoverComponente(c, v)

SpecControlador == Init /\ [][NextControlador]_vars

(***************************************************************************)
(* Properties.                                                             *)
(***************************************************************************)
\* The signed integer written in an operand.
ValorDe(s) == IF Ch(s, 1) = "-" THEN 0 - ToInt(SubSeq(s, 2, Len(s))) ELSE ToInt(s)

\* A CREATE quadruple for identifier id, in any letter case, was emitted.
YaCreado(id) ==
    \E k \in 1..Len(cuadruplos) :
        cuadruplos[k].operador = "CREATE" /\ Lower(cuadruplos[k].resultado) = Lower(id)

\* An error message that reports a caught exception.
EsGenerico(msg) ==
    \/ StartsWith(msg, "Error inesperado: ")
    \/ StartsWith(msg, "Error procesando '")
    \/ StartsWith(msg, "Error en bloque de repetición: ")

\* The ranges of the command vocabulary as the specification lists them.
RangoCanonico ==
    ("base" :> <<0, 360>>) @@ ("hombro" :> <<0, 180>>) @@ ("codo" :> <<0, 180>>) @@
    ("garra" :> <<0, 360>>) @@ ("velocidad" :> <<1, 100>>)

\* The same with velocidad in seconds, 1 to 60.
RangoSegundos == [RangoCanonico EXCEPT !["velocidad"] = <<1, 60>>]

\* The ranges of the movement commands.
RangoMovimiento ==
    ("base" :> <<0, 360>>) @@ ("hombro" :> <<0, 180>>) @@ ("codo" :> <<0, 180>>) @@
    ("garra" :> <<0, 360>>)

\* The ranges of the commands a MOVE quadruple can carry, and of the
\* magnitudes a MOVE_NEG quadruple can carry.
RangoMove == RangoMovimiento @@ ("repetir" :> <<1, 100>>)
RangoMagnitud ==
    RangoMovimiento @@ ("muñeca1" :> <<0, 160>>) @@ ("muñeca2" :> <<0, 120>>) @@
    ("muñeca3" :> <<0, 400>>)

Dentro(v, rango) == rango[1] <= v /\ v <= rango[2]

\* pal[k..k+2] is ID.command = value for robot id, with the command in R and
\* the value inside its range.
EsAsignacionSimple(pal, k, id, R) ==
    LET partes == SplitPor(W(pal, k), ".") IN
    /\ Len(partes) = 2
    /\ Lower(partes[1]) = Lower(id)
    /\ Lower(partes[2]) \in DOMAIN R
    /\ W(pal, k + 1) = "="
    /\ MatchValor(W(pal, k + 2))
    /\ ~IntExcede(W(pal, k + 2))
    /\ Dentro(ToInt(W(pal, k + 2)), R[Lower(partes[2])])

\* pal declares one robot and then holds only in-range assignments to it.
EsScriptSimple(pal, R) ==
    /\ Len(pal) >= 2
    /\ (Len(pal) - 2) % 3 = 0
    /\ Lower(pal[1]) = "robot"
    /\ MatchId(pal[2])
    /\ \A m \in 0..(((Len(pal) - 2) \div 3) - 1) :
          EsAsignacionSimple(pal, 2 + 3 * m, pal[2], R)

\* C1: fail-fast. In every call at most one error message is recorded, and
\* once it is recorded no step consumes a token or adds a symbol, a quadruple
\* or a message.
C1_FailFast ==
    /\ [](Len(errores) <= 1 /\ Len(resultado.errores) <= 1)
    /\ [][errores # <<>> =>
            /\ i' = i
            /\ palabras' = palabras
            /\ tabla_simbolos' = tabla_simbolos
            /\ cuadruplos' = cuadruplos
            /\ errores' = errores]_vars

\* A call that recorded its error after emitting quadruples, with tokens left.
C1_Witness ==
    /\ pc = "done"
    /\ Len(resultado.errores) = 1
    /\ Len(cuadruplos) >= 3
    /\ i = -1
    /\ Len(palabras) >= 8

\* C2: in every result exito is true exactly when errores is empty, and only
\* when the cursor of the dispatcher reached the end of the token list.
C2_ExitoSiiSinErrores ==
    pc = "done" =>
        /\ resultado.exito <=> (resultado.errores = <<>>)
        /\ resultado.exito => (i = Len(palabras) /\ Len(palabras) > 0)

\* A call that stopped before the last token, with partial results, and failed.
C2_Witness ==
    /\ pc = "done"
    /\ ~resultado.exito
    /\ i = -1
    /\ Len(resultado.cuadruplos) > 0
    /\ Len(resultado.tabla_simbolos) > 0

\* C3: no cross-call leakage. Whatever was analysed before on the instance,
\* the result of analizar(entrada) is the result it has on a fresh instance.
C3_SinFugas == pc = "done" => resultado = AnalizarEn(InstanciaNueva, entrada)

\* After a successful call that declared R1, a script that uses R1 without
\* declaring it fails as on a fresh instance.
C3_Witness ==
    /\ pc = "done"
    /\ previo = "exito"
    /\ resultado.errores = <<"Robot no declarado: 'R1'">>

\* C4: no fault reaches the caller. An exception raised by a handler is caught
\* and becomes the only error message; an entrada that is no str, or any
\* caught exception, gives exito = false with exactly one generic message; and
\* every step of a call either moves the cursor forward within the tokens or
\* ends the loop, and the step after the loop returns the result.
C4_SinPropagar ==
    /\ [][(EnBucle /\ Manejar(Self, palabras, i).exc # "") =>
            /\ pc' = "fin"
            /\ Len(errores') = 1
            /\ StartsWith(errores'[1], "Error procesando '")]_vars
    /\ [](\A k \in 1..Len(errores) : EsGenerico(errores[k]) => Len(errores) = 1)
    /\ []((pc = "done" /\ (entrada.tipo # "str"
                           \/ \E k \in 1..Len(errores) : EsGenerico(errores[k]))) =>
            /\ ~resultado.exito
            /\ Len(resultado.errores) = 1
            /\ EsGenerico(resultado.errores[1]))
    /\ [][pc = "loop" =>
            \/ pc' = "fin"
            \/ pc' = "done" /\ i >= Len(palabras) /\ resultado' = Compilar(Self)
            \/ pc' = "loop" /\ i < i' /\ i' <= Len(palabras)]_vars
    /\ [][pc = "fin" => (pc' = "done" /\ resultado' = Compilar(Self))]_vars

\* A call that ended on the exception of int() after emitting quadruples.
C4_Witness ==
    /\ pc = "done"
    /\ ~resultado.exito
    /\ Len(resultado.errores) = 1
    /\ StartsWith(resultado.errores[1], "Error procesando '")
    /\ Len(resultado.cuadruplos) > 0

EnAsignacion(R) ==
    /\ EnBucle
    /\ Caso(palabras, i) = "comando"
    /\ Len(SplitPor(palabra_actual, ".")) = 2
    /\ YaCreado(SplitPor(palabra_actual, ".")[1])
    /\ Lower(SplitPor(palabra_actual, ".")[2]) \in DOMAIN R
    /\ W(palabras, i + 1) = "="
    /\ MatchValor(W(palabras, i + 2))
    /\ ~IntExcede(W(palabras, i + 2))

\* With ranges R: an assignment of a bound of the range is accepted, and one
\* of the value next below or above the range fails with an out-of-range error.
Fronteras(R) ==
    EnAsignacion(R) =>
        LET rango == R[Lower(SplitPor(palabra_actual, ".")[2])]
            v == ToInt(W(palabras, i + 2))
        IN  /\ v \in {rango[1], rango[2]} =>
                (pc' = "loop" /\ i' = i + 3 /\ errores' = <<>>)
            /\ v \in {rango[1] - 1, rango[2] + 1} =>
                /\ pc' = "fin"
                /\ Len(errores') = 1
                /\ StartsWith(errores'[1], "Valor fuera de rango para ")

C7_DeclaracionDuplicada ==
    /\ [][(/\ EnBucle
           /\ Caso(palabras, i) = "robot"
           /\ i + 1 < Len(palabras)
           /\ YaCreado(W(palabras, i + 1))) =>
            /\ pc' = "fin"
            /\ errores' = <<"Robot ya declarado: '" \o W(palabras, i + 1) \o "'">>
            /\ tabla_simbolos' = tabla_simbolos
            /\ cuadruplos' = cuadruplos]_vars
    /\ [](\A j, k \in 1..Len(cuadruplos) :
            (/\ j < k
             /\ cuadruplos[j].operador = "CREATE"
             /\ cuadruplos[k].operador = "CREATE") =>
                Lower(cuadruplos[j].resultado) # Lower(cuadruplos[k].resultado))
    /\ [](\A j, k \in 1..Len(tabla_simbolos) :
            (/\ j < k
             /\ tabla_simbolos[j].metodo = "robot"
             /\ tabla_simbolos[k].metodo = "robot") =>
                Lower(tabla_simbolos[j].id) # Lower(tabla_simbolos[k].id))
    /\ []((pc = "done" /\ errores # <<>>
           /\ StartsWith(errores[1], "Robot ya declarado: ")) =>
            (~resultado.exito /\ Len(resultado.errores) = 1))

\* R1 was declared, then declared again as r1: one error, one CREATE.
C7_Witness ==
    /\ pc = "done"
    /\ resultado.errores = <<"Robot ya declarado: 'r1'">>
    /\ ~resultado.exito
    /\ Cardinality({k \in 1..Len(cuadruplos) : cuadruplos[k].operador = "CREATE"}) = 1

\* C8: declaration before use. Every assignment that was accepted (it emitted
\* a SET_SPEED, MOVE or MOVE_NEG quadruple), inside a repeat block or not, is
\* for a robot that has been declared.
C8_DeclaracionAntesDeUso ==
    \A k \in 1..Len(cuadruplos) :
        cuadruplos[k].operador \in {"SET_SPEED", "MOVE", "MOVE_NEG"} =>
            \E s \in 1..Len(tabla_simbolos) :
                /\ tabla_simbolos[s].metodo = "robot"
                /\ Lower(tabla_simbolos[s].id) = Lower(cuadruplos[k].operando1)

\* The cursor is at ID.command.negativo = v, for a declared robot, a movement
\* command and a magnitude v inside its range.
EnNegativo ==
    /\ EnBucle
    /\ Caso(palabras, i) = "comando"
    /\ Len(SplitPor(palabra_actual, ".")) = 3
    /\ YaCreado(SplitPor(palabra_actual, ".")[1])
    /\ Lower(SplitPor(palabra_actual, ".")[2]) \in DOMAIN RangoMovimiento
    /\ Lower(SplitPor(palabra_actual, ".")[3]) = "negativo"
    /\ W(palabras, i + 1) = "="
    /\ MatchValor(W(palabras, i + 2))
    /\ ~IntExcede(W(palabras, i + 2))
    /\ Dentro(ToInt(W(palabras, i + 2)),
              RangoMovimiento[Lower(SplitPor(palabra_actual, ".")[2])])

C10_Original ==
    \A k \in 1..Len(cuadruplos) :
        (/\ cuadruplos[k].operador \in {"MOVE", "MOVE_NEG"}
         /\ cuadruplos[k].resultado \in DOMAIN RangoMovimiento) =>
            Dentro(ValorDe(cuadruplos[k].operando2),
                   RangoMovimiento[cuadruplos[k].resultado])

\* C10 amended: the value of a MOVE quadruple lies inside the range of its
\* command, and the value of a MOVE_NEG quadruple is the negation of a
\* magnitude inside the range of the .negativo form of its command.
C10_ValorEnRango ==
    \A k \in 1..Len(cuadruplos) :
        /\ cuadruplos[k].operador = "MOVE" =>
              /\ cuadruplos[k].resultado \in DOMAIN RangoMove
              /\ Dentro(ValorDe(cuadruplos[k].operando2),
                        RangoMove[cuadruplos[k].resultado])
        /\ cuadruplos[k].operador = "MOVE_NEG" =>
              /\ cuadruplos[k].resultado \in DOMAIN RangoMagnitud
              /\ Dentro(0 - ValorDe(cuadruplos[k].operando2),
                        RangoMagnitud[cuadruplos[k].resultado])

\* A MOVE_NEG quadruple with a negative value, emitted inside a repeat block.
C10_Witness ==
    \E j, k \in 1..Len(cuadruplos) :
        /\ j < k
        /\ cuadruplos[j].operador = "BEGIN_LOOP"
        /\ cuadruplos[k].operador = "MOVE_NEG"
        /\ ValorDe(cuadruplos[k].operando2) < 0

\* The position of the first "}" after position k of pal (0-based; Len(pal) if
\* there is none).
PrimeraLlaveCierre(pal, k) ==
    IF \E c \in k..(Len(pal) - 1) : W(pal, c) = "}"
    THEN CHOOSE c \in k..(Len(pal) - 1) :
            W(pal, c) = "}" /\ \A d \in k..(c - 1) : W(pal, d) # "}"
    ELSE Len(pal)

\* cuerpo[k..k+2] is a valid assignment for robot id as a repeat body accepts
\* it: ID.command = v or ID.command.negativo = v with v inside the range.
EsAsignacionDeCuerpo(cuerpo, k, id) ==
    LET partes == SplitPor(W(cuerpo, k), ".") IN
    /\ Len(partes) \in {2, 3}
    /\ Lower(partes[1]) = Lower(id)
    /\ W(cuerpo, k + 1) = "="
    /\ MatchValor(W(cuerpo, k + 2))
    /\ ~IntExcede(W(cuerpo, k + 2))
    /\ IF Len(partes) = 2
       THEN /\ Lower(partes[2]) \in DOMAIN RangoSegundos
            /\ Dentro(ToInt(W(cuerpo, k + 2)), RangoSegundos[Lower(partes[2])])
       ELSE /\ Lower(partes[3]) = "negativo"
            /\ Lower(partes[2]) \in DOMAIN RangoMagnitud
            /\ Dentro(ToInt(W(cuerpo, k + 2)), RangoMagnitud[Lower(partes[2])])

\* cuerpo is a non-empty sequence of valid assignments for robot id.
EsCuerpoValido(cuerpo, id) ==
    /\ Len(cuerpo) >= 3
    /\ Len(cuerpo) % 3 = 0
    /\ \A m \in 0..((Len(cuerpo) \div 3) - 1) : EsAsignacionDeCuerpo(cuerpo, 3 * m, id)

\* The quadruples of the assignment at cuerpo[k..k+2], without the speed tag
\* and the delay of SET_SPEED.
FormaDeAsignacion(cuerpo, k) ==
    LET partes == SplitPor(W(cuerpo, k), ".")
        v == ToInt(W(cuerpo, k + 2))
        pre == [operador |-> "SET_SPEED", operando1 |-> partes[1]]
    IN
    IF Len(partes) = 3
    THEN <<pre, Cuadruplo("MOVE_NEG", partes[1], Str(0 - v), Lower(partes[2]))>>
    ELSE IF Lower(partes[2]) = "velocidad"
    THEN <<[operador |-> "SET_SPEED", operando1 |-> partes[1], operando2 |-> Str(v)]>>
    ELSE <<pre, Cuadruplo("MOVE", partes[1], Str(v), Lower(partes[2]))>>

RECURSIVE FormaDeCuerpo(_, _)
\* The quadruples of the assignments of cuerpo from position k on, in order.
FormaDeCuerpo(cuerpo, k) ==
    IF k + 2 < Len(cuerpo)
    THEN FormaDeAsignacion(cuerpo, k) \o FormaDeCuerpo(cuerpo, k + 3)
    ELSE <<>>

\* Quadruple q has the fields that forma gives.
TieneForma(q, forma) == \A campo \in DOMAIN forma : q[campo] = forma[campo]

\* The cursor is at R.repetir = N { cuerpo } with N in [1,100] and cuerpo a
\* non-empty sequence of valid assignments for R.
EnRepetirBienFormado ==
    /\ EnBucle
    /\ i + 3 < Len(palabras)
    /\ MatchLexico(palabra_actual)
    /\ Len(SplitPor(palabra_actual, ".")) = 2
    /\ Lower(SplitPor(palabra_actual, ".")[2]) = "repetir"
    /\ W(palabras, i + 1) = "="
    /\ MatchValor(W(palabras, i + 2))
    /\ ~IntExcede(W(palabras, i + 2))
    /\ Dentro(ToInt(W(palabras, i + 2)), <<1, 100>>)
    /\ W(palabras, i + 3) = "{"
    /\ PrimeraLlaveCierre(palabras, i + 4) < Len(palabras)
    /\ EsCuerpoValido(SubSeq(palabras, i + 5, PrimeraLlaveCierre(palabras, i + 4)),
                      SplitPor(palabra_actual, ".")[1])

\* C11: a well-formed R.repetir = N { cuerpo } is accepted, the cursor moves
\* past the closing brace, and the step appends exactly BEGIN_LOOP(N, --, id),
\* the quadruples of the assignments of cuerpo once and in order, whatever N
\* is, and END_LOOP(id, N, --) with the same id and N.
C11_BucleBienFormado ==
    [][EnRepetirBienFormado =>
        LET cierre == PrimeraLlaveCierre(palabras, i + 4)
            cuerpo == SubSeq(palabras, i + 5, cierre)
            forma == FormaDeCuerpo(cuerpo, 0)
            n == Str(ToInt(W(palabras, i + 2)))
            antes == Len(cuadruplos)
        IN  /\ pc' = "loop"
            /\ errores' = <<>>
            /\ i' = cierre + 1
            /\ Len(cuadruplos') = antes + Len(forma) + 2
            /\ SubSeq(cuadruplos', 1, antes) = cuadruplos
            /\ cuadruplos'[antes + 1].operador = "BEGIN_LOOP"
            /\ cuadruplos'[antes + 1].operando1 = n
            /\ cuadruplos'[antes + 1].operando2 = Raya
            /\ cuadruplos'[Len(cuadruplos')] =
                  Cuadruplo("END_LOOP", cuadruplos'[antes + 1].resultado, n, Raya)
            /\ \A k \in 1..Len(forma) : TieneForma(cuadruplos'[antes + 1 + k], forma[k])]_vars

\* A script of a declaration and a loop of two assignments repeated twice
\* succeeded with six quadruples.
C11_Witness ==
    /\ pc = "done"
    /\ resultado.exito
    /\ Len(cuadruplos) = 6
    /\ cuadruplos[2] = Cuadruplo("BEGIN_LOOP", "2", Raya, "loop0")
    /\ cuadruplos[4] = Cuadruplo("MOVE", "R1", "10", "base")
    /\ cuadruplos[5].operador = "SET_SPEED"
    /\ cuadruplos[6] = Cuadruplo("END_LOOP", "loop0", "2", Raya)

RECURSIVE LlavesAbiertas(_, _, _)
\* The number of "{" tokens of pal[k..] that no later "}" token closes, with n
\* of them open before position k (1-based).
LlavesAbiertas(pal, k, n) ==
    IF k > Len(pal) THEN n
    ELSE LlavesAbiertas(pal, k + 1,
                        IF pal[k] = "{" THEN n + 1
                        ELSE IF pal[k] = "}" /\ n > 0 THEN n - 1
                        ELSE n)

RECURSIVE SeCierra(_, _, _)
\* With n braces open before position k (1-based), some "}" of pal[k..] closes
\* the outermost of them.
SeCierra(pal, k, n) ==
    IF n = 0 THEN TRUE
    ELSE IF k > Len(pal) THEN FALSE
    ELSE SeCierra(pal, k + 1,
                  IF pal[k] = "{" THEN n + 1
                  ELSE IF pal[k] = "}" THEN n - 1
                  ELSE n)

\* The cursor is at the header ID.repetir = N { of a repeat block, N in [1,100].
EnCabeceraRepetir ==
    /\ EnBucle
    /\ i + 3 < Len(palabras)
    /\ MatchLexico(palabra_actual)
    /\ Len(SplitPor(palabra_actual, ".")) = 2
    /\ Lower(SplitPor(palabra_actual, ".")[2]) = "repetir"
    /\ W(palabras, i + 1) = "="
    /\ MatchValor(W(palabras, i + 2))
    /\ ~IntExcede(W(palabras, i + 2))
    /\ Dentro(ToInt(W(palabras, i + 2)), <<1, 100>>)
    /\ W(palabras, i + 3) = "{"

\* C12: an input with a "{" token that no later "}" token closes is analysed
\* with exito = false and one error; when that "{" opens a repeat block the
\* error is the missing-closing-brace error and the block emits nothing.
C12_LlaveSinCerrar ==
    /\ []((pc = "done" /\ entrada.tipo = "str" /\ LlavesAbiertas(palabras, 1, 0) > 0) =>
            (~resultado.exito /\ Len(resultado.errores) = 1))
    /\ [][(EnCabeceraRepetir /\ ~SeCierra(palabras, i + 5, 1)) =>
            /\ pc' = "fin"
            /\ errores' = <<"Falta '}' para cerrar el bloque de repetición">>
            /\ cuadruplos' = cuadruplos]_vars

\* A block whose body opens a second brace and closes only one ended with the
\* missing-closing-brace error after the whole input was scanned.
C12_Witness ==
    /\ pc = "done"
    /\ resultado.errores = <<"Falta '}' para cerrar el bloque de repetición">>
    /\ LlavesAbiertas(palabras, 1, 0) = 1
    /\ \E k \in 1..Len(palabras) : palabras[k] = "}"

\* C13: an input with at least one token outside [A-Za-z0-9.={}]+, at any
\* position, is analysed with exito = false.
C13_LexicoEnTodoToken ==
    (pc = "done" /\ \E k \in 1..Len(palabras) : ~MatchLexico(palabras[k])) =>
        ~resultado.exito

\* The cursor is at an assignment ID.command = v or ID.command.negativo = v.
EnComando == EnBucle /\ Caso(palabras, i) = "comando"

\* C17: an accepted velocidad assignment appends exactly one SET_SPEED
\* quadruple and no MOVE; an accepted movement assignment appends exactly two
\* quadruples, SET_SPEED for the robot and right after it MOVE (no suffix) or
\* MOVE_NEG (negativo suffix) for the same robot; every MOVE and MOVE_NEG
\* quadruple, in a block or not, comes right after a SET_SPEED of its robot;
\* and no step removes or reorders the quadruples emitted before it.
C17_FormaDeEmision ==
    /\ [][(EnComando /\ pc' = "loop") =>
            LET partes == SplitPor(palabra_actual, ".")
                antes == Len(cuadruplos)
            IN  /\ SubSeq(cuadruplos', 1, antes) = cuadruplos
                /\ IF Len(partes) = 2 /\ Lower(partes[2]) = "velocidad"
                   THEN /\ Len(cuadruplos') = antes + 1
                        /\ cuadruplos'[antes + 1].operador = "SET_SPEED"
                        /\ cuadruplos'[antes + 1].operando1 = partes[1]
                        /\ cuadruplos'[antes + 1].operando2 = Str(ToInt(W(palabras, i + 2)))
                   ELSE /\ Len(cuadruplos') = antes + 2
                        /\ cuadruplos'[antes + 1].operador = "SET_SPEED"
                        /\ cuadruplos'[antes + 1].operando1 = partes[1]
                        /\ cuadruplos'[antes + 2].operador =
                              (IF Len(partes) = 3 THEN "MOVE_NEG" ELSE "MOVE")
                        /\ cuadruplos'[antes + 2].operando1 = partes[1]
                        /\ cuadruplos'[antes + 2].resultado = Lower(partes[2])]_vars
    /\ [](\A k \in 1..Len(cuadruplos) :
            cuadruplos[k].operador \in {"MOVE", "MOVE_NEG"} =>
                /\ k > 1
                /\ cuadruplos[k - 1].operador = "SET_SPEED"
                /\ cuadruplos[k - 1].operando1 = cuadruplos[k].operando1)
    /\ [][pc # "idle" => (/\ Len(cuadruplos') >= Len(cuadruplos)
                          /\ SubSeq(cuadruplos', 1, Len(cuadruplos)) = cuadruplos)]_vars

\* A velocidad assignment and then a movement were accepted: CREATE, one
\* SET_SPEED for the velocidad, and the pair SET_SPEED, MOVE with that delay.
C17_Witness ==
    /\ pc = "done"
    /\ resultado.exito
    /\ Len(cuadruplos) = 4
    /\ cuadruplos[1].operador = "CREATE"
    /\ cuadruplos[2] = Cuadruplo("SET_SPEED", "R1", "7", "speed_0")
    /\ cuadruplos[3] = Cuadruplo("SET_SPEED", "R1", "7", "pre_speed_1")
    /\ cuadruplos[4] = Cuadruplo("MOVE", "R1", "90", "base")

\* The key of a symbol: robot id and command, both lowercased.
ClaveDe(s) == <<Lower(s.id), Lower(s.metodo)>>

\* C19: the symbol table never holds two entries with the same key (robot id
\* lowercased, command lowercased), and an accepted assignment removes the
\* entry of its key, keeps the others in order and appends the new entry.
C19_ClaveUnica ==
    /\ [](\A j, k \in 1..Len(tabla_simbolos) :
            j < k => ClaveDe(tabla_simbolos[j]) # ClaveDe(tabla_simbolos[k]))
    /\ [][(EnComando /\ pc' = "loop") =>
            LET partes == SplitPor(palabra_actual, ".")
                clave == <<Lower(partes[1]), Lower(partes[2])>>
                Otra(s) == ClaveDe(s) # clave
                resto == SelectSeq(tabla_simbolos, Otra)
            IN  /\ Len(tabla_simbolos') = Len(resto) + 1
                /\ SubSeq(tabla_simbolos', 1, Len(resto)) = resto
                /\ ClaveDe(tabla_simbolos'[Len(tabla_simbolos')]) = clave]_vars

\* Two assignments to the same key were accepted (two MOVE quadruples for base)
\* and the table holds the robot and one base entry.
C19_Witness ==
    /\ Len(tabla_simbolos) = 2
    /\ tabla_simbolos[1].metodo = "robot"
    /\ tabla_simbolos[2].metodo = "base"
    /\ Cardinality({k \in 1..Len(cuadruplos) :
                      cuadruplos[k].operador = "MOVE"
                      /\ cuadruplos[k].resultado = "base"}) = 2

\* The position of the last quadruple of cuadruplos that records an accepted
\* assignment to the pair of quadruple q (the same robot in any case, the same
\* command); a SET_SPEED with tag speed_N records a velocidad assignment.
EsAsignado(q) ==
    \/ q.operador \in {"MOVE", "MOVE_NEG"}
    \/ q.operador = "SET_SPEED" /\ StartsWith(q.resultado, "speed_")
ComandoDe(q) == IF q.operador = "SET_SPEED" THEN "velocidad" ELSE q.resultado
UltimaAsignacion(q) ==
    CHOOSE k \in 1..Len(cuadruplos) :
        /\ EsAsignado(cuadruplos[k])
        /\ Lower(cuadruplos[k].operando1) = Lower(q.operando1)
        /\ ComandoDe(cuadruplos[k]) = ComandoDe(q)
        /\ \A m \in (k + 1)..Len(cuadruplos) :
              ~(/\ EsAsignado(cuadruplos[m])
                /\ Lower(cuadruplos[m].operando1) = Lower(q.operando1)
                /\ ComandoDe(cuadruplos[m]) = ComandoDe(q))

\* C20: after a successful analysis, every (robot, command) pair that an
\* accepted assignment names, in a repeat block or not, has a symbol with
\* parameter 1 whose value is the signed value of the last such assignment.
C20_UltimoValor ==
    (pc = "done" /\ resultado.exito) =>
        \A k \in 1..Len(cuadruplos) :
            EsAsignado(cuadruplos[k]) =>
                \E s \in 1..Len(tabla_simbolos) :
                    /\ Lower(tabla_simbolos[s].id) = Lower(cuadruplos[k].operando1)
                    /\ Lower(tabla_simbolos[s].metodo) = ComandoDe(cuadruplos[k])
                    /\ tabla_simbolos[s].parametro = 1
                    /\ tabla_simbolos[s].valor =
                          ValorDe(cuadruplos[UltimaAsignacion(cuadruplos[k])].operando2)

\* The delay of robot r after the first n quadruples: the value of the last
\* accepted velocidad assignment for r (a SET_SPEED with tag speed_N, r in any
\* case) among them, or 5 if there is none.
DelayEsperado(r, n) ==
    LET previos == {m \in 1..n :
                      /\ cuadruplos[m].operador = "SET_SPEED"
                      /\ StartsWith(cuadruplos[m].resultado, "speed_")
                      /\ Lower(cuadruplos[m].operando1) = Lower(r)}
    IN  IF previos = {} THEN "5"
        ELSE cuadruplos[CHOOSE m \in previos : \A o \in previos : o <= m].operando2

\* C18: the SET_SPEED emitted for a movement of robot r carries the value of
\* the most recent accepted velocidad assignment for r earlier in the script,
\* in a block or not, or 5 if there is none (so neither a movement nor a
\* velocidad assignment for another robot changes it).
C18_RegistroDeVelocidad ==
    \A k \in 2..Len(cuadruplos) :
        cuadruplos[k].operador \in {"MOVE", "MOVE_NEG"} =>
            /\ cuadruplos[k - 1].operador = "SET_SPEED"
            /\ cuadruplos[k - 1].operando2 = DelayEsperado(cuadruplos[k].operando1, k - 2)

\* A report that renders the symbol table or the quadruple table.
ConTablas(salida) == salida.tabla_simbolos # <<>> \/ salida.tabla_cuadruplos # <<>>

\* The executor slot has been called, or has processed a quadruple or moved
\* the robot, for the analysis of the current thread.
EjecutorInvocado ==
    \/ ejecutor.pc # "inactivo"
    \/ ejecutados # <<>>
    \/ llamadas # <<>>

\* C14: the signal cuadruplos_ready is only emitted, and the executor only
\* called, with the quadruples of an analysis whose exito is true and that was
\* requested with the robot connected; the executor only processes quadruples
\* while the robot is connected; nothing of a failed analysis is executed; and
\* the report of an analysis with errors, as returned and as sent to the
\* display, renders neither the symbol table nor the quadruple table.
C14_SoloConExito ==
    /\ [](\A k \in 1..Len(pendientes) :
            pendientes[k].senal = "cuadruplos_ready" =>
                /\ resultado.exito
                /\ resultado.errores = <<>>
                /\ robodk_enabled
                /\ pendientes[k].carga = resultado.cuadruplos)
    /\ [](EjecutorInvocado =>
            /\ resultado.exito
            /\ resultado.errores = <<>>
            /\ robodk_enabled
            /\ ejecutor.cuadruplos = resultado.cuadruplos)
    /\ [](ejecutor.pc \in {"principal", "bucle", "roto"} => conectado)
    /\ [][ejecutados' # ejecutados /\ ejecutados' # <<>> => conectado /\ resultado.exito]_vars
    /\ [](resultado.errores # <<>> =>
            /\ ~resultado.exito
            /\ ~ConTablas(resultado.salida)
            /\ ~EjecutorInvocado)
    /\ [](\A k \in 1..Len(pendientes) :
            pendientes[k].senal = "analysis_finished" =>
                /\ pendientes[k].carga.resultado = resultado.salida
                /\ pendientes[k].carga.exito = resultado.exito
                /\ (~pendientes[k].carga.exito => ~ConTablas(pendientes[k].carga.resultado)))

\* An analysis requested with the robot connected failed after it had declared
\* a robot: its signals were delivered, the robot is still connected, nothing
\* was executed and the report has no table.
C14_Witness ==
    /\ app_pc = "listo"
    /\ pc = "done"
    /\ robodk_enabled
    /\ conectado
    /\ ~resultado.exito
    /\ resultado.cuadruplos # <<>>
    /\ resultado.tabla_simbolos # <<>>
    /\ ~ConTablas(resultado.salida)
    /\ ~EjecutorInvocado

RECURSIVE Veces(_, _)
\* The sequence s repeated n times.
Veces(s, n) == IF n <= 0 THEN <<>> ELSE s \o Veces(s, n - 1)

\* The position (from 0) of the END_LOOP that matches the BEGIN_LOOP at
\* position k of cs: the first END_LOOP after it that names its loop id; -1
\* when there is none.
FinDeBucle(cs, k) ==
    LET fines == {j \in (k + 1)..(Len(cs) - 1) :
                    /\ cs[j + 1].operador = "END_LOOP"
                    /\ cs[j + 1].operando1 = cs[k + 1].resultado}
    IN  IF fines = {} THEN -1 ELSE CHOOSE j \in fines : \A m \in fines : j <= m

RECURSIVE Traza(_, _)
\* The positions of cs in the order in which a replay from position k on
\* executes them: a BEGIN_LOOP, then the quadruples up to its END_LOOP as many
\* times as its operando1 says, then what follows the END_LOOP; any other
\* quadruple once.
Traza(cs, k) ==
    IF k >= Len(cs) THEN <<>>
    ELSE IF cs[k + 1].operador = "BEGIN_LOOP" /\ FinDeBucle(cs, k) # -1
    THEN LET fin == FinDeBucle(cs, k)
             cuerpo == [j \in 1..(fin - k - 1) |-> k + j]
         IN  <<k>> \o Veces(cuerpo, ValorDe(cs[k + 1].operando1)) \o Traza(cs, fin + 1)
    ELSE <<k>> \o Traza(cs, k + 1)

\* The operators the executor acts on in a loop body.
OperadoresDeCuerpo == {"SET_SPEED", "MOVE", "MOVE_NEG"}

\* C15: whenever the executor runs the quadruples of a successful analysis,
\* what it has processed so far is the beginning of the replay of the list
\* (each BEGIN_LOOP followed by the quadruples up to its matching END_LOOP, in
\* order, n times, then the quadruples after that END_LOOP, each quadruple
\* outside a loop once), and when it ends it has processed exactly the replay;
\* each list has its END_LOOP for each BEGIN_LOOP and holds in a loop body only
\* quadruples the executor acts on there.
C15_RepeticionExacta ==
    ejecutor.pc \in {"principal", "bucle", "roto", "fin"} =>
        LET cs == ejecutor.cuadruplos
            traza == Traza(cs, 0)
        IN  /\ resultado.exito
            /\ cs = resultado.cuadruplos
            /\ Len(ejecutados) <= Len(traza)
            /\ ejecutados = SubSeq(traza, 1, Len(ejecutados))
            /\ (ejecutor.pc = "fin" => ejecutados = traza)
            /\ ejecutor.pc # "roto"
            /\ \A k \in 0..(Len(cs) - 1) :
                  cs[k + 1].operador = "BEGIN_LOOP" =>
                      /\ FinDeBucle(cs, k) # -1
                      /\ \A j \in (k + 1)..(FinDeBucle(cs, k) - 1) :
                            cs[j + 1].operador \in OperadoresDeCuerpo

\* The executor has finished a list with a loop of two or more repetitions of
\* two or more quadruples, and with quadruples after its END_LOOP.
C15_Witness ==
    /\ ejecutor.pc = "fin"
    /\ \E k \in 0..(Len(ejecutor.cuadruplos) - 1) :
          /\ ejecutor.cuadruplos[k + 1].operador = "BEGIN_LOOP"
          /\ ValorDe(ejecutor.cuadruplos[k + 1].operando1) >= 2
          /\ FinDeBucle(ejecutor.cuadruplos, k) > k + 2
          /\ FinDeBucle(ejecutor.cuadruplos, k) < Len(ejecutor.cuadruplos) - 1
    /\ ejecutados = Traza(ejecutor.cuadruplos, 0)
    /\ Len(ejecutados) > Len(ejecutor.cuadruplos)

RECURSIVE UltimaVelocidad(_, _, _)
\* The value of the last SET_SPEED of robot r among the quadruples of cs at
\* the positions hechos, in seconds; 5 when there is none.
UltimaVelocidad(cs, hechos, r) ==
    IF hechos = <<>> THEN 5
    ELSE LET q == cs[hechos[Len(hechos)] + 1] IN
         IF q.operador = "SET_SPEED" /\ Lower(q.operando1) = Lower(r)
         THEN ValorDe(q.operando2)
         ELSE UltimaVelocidad(cs, SubSeq(hechos, 1, Len(hechos) - 1), r)

\* The executor processes a MOVE or MOVE_NEG quadruple in this step.
EnMovimiento ==
    /\ Len(ejecutados') = Len(ejecutados) + 1
    /\ ejecutor.cuadruplos[ejecutados'[Len(ejecutados')] + 1].operador \in {"MOVE", "MOVE_NEG"}

\* C16: each time the executor processes a MOVE or MOVE_NEG quadruple of robot
\* r, at the top level or in any repetition of a loop, it calls
\* mover_componente once, with the component of the quadruple and the signed
\* value written in it (negative or zero for MOVE_NEG), the controller accepts
\* the motion, and the delay of the controller at that call is the value of the
\* SET_SPEED of r executed last before it, 5 s when none was executed; no
\* other step calls mover_componente.
C16_VelocidadDelMovimiento ==
    [][IF EnMovimiento
       THEN LET q == ejecutor.cuadruplos[ejecutados'[Len(ejecutados')] + 1]
                m == llamadas'[Len(llamadas')]
            IN  /\ Len(llamadas') = Len(llamadas) + 1
                /\ SubSeq(llamadas', 1, Len(llamadas)) = llamadas
                /\ m.robot = q.operando1
                /\ m.componente = q.resultado
                /\ m.valor = ValorDe(q.operando2)
                /\ (q.operador = "MOVE_NEG" => m.valor <= 0)
                /\ m.movimiento
                /\ m.delay = UltimaVelocidad(ejecutor.cuadruplos, ejecutados, q.operando1)
                /\ delay_actual' = m.delay
       ELSE llamadas' = llamadas \/ llamadas' = <<>>]_vars

\* In the second repetition of a loop a MOVE_NEG was issued with the delay of
\* the SET_SPEED executed in the loop (9 s), after a MOVE of the same repetition
\* issued with the delay set before the loop (7 s), which followed a motion of
\* the first repetition issued with 9 s.
C16_Witness ==
    /\ ejecutor.pc = "bucle"
    /\ ejecutor.rep = 1
    /\ Len(llamadas) >= 4
    /\ llamadas[Len(llamadas)].valor < 0
    /\ llamadas[Len(llamadas)].delay = 9
    /\ llamadas[Len(llamadas) - 1].delay = 7
    /\ llamadas[Len(llamadas) - 2].delay = 9
    /\ delay_actual = 9

\* A CREATE quadruple for identifier id, in any letter case, is among cs.
CreadoEn(cs, id) ==
    \E c \in 1..Len(cs) :
        cs[c].operador = "CREATE" /\ Lower(cs[c].resultado) = Lower(id)

\* C21: at every point of an analysis, each entry of the symbol table is for a
\* robot id for which the quadruple list holds a CREATE (in any letter case);
\* and a step that adds or changes an entry for a parameter of a robot finds
\* that CREATE already in the list, before the quadruples the step emits.
C21_SimboloTrasCreate ==
    /\ [](\A s \in 1..Len(tabla_simbolos) : CreadoEn(cuadruplos, tabla_simbolos[s].id))
    /\ [][\A s \in 1..Len(tabla_simbolos') :
            (/\ tabla_simbolos'[s].metodo # "robot"
             /\ \A t \in 1..Len(tabla_simbolos) : tabla_simbolos[t] # tabla_simbolos'[s])
            => /\ CreadoEn(cuadruplos, tabla_simbolos'[s].id)
               /\ Len(cuadruplos') > Len(cuadruplos)
               /\ SubSeq(cuadruplos', 1, Len(cuadruplos)) = cuadruplos]_vars

\* A parameter symbol was entered for a robot declared in another letter case,
\* after a repeat block had emitted quadruples.
C21_Witness ==
    /\ \E s \in 1..Len(tabla_simbolos), c \in 1..Len(cuadruplos) :
          /\ tabla_simbolos[s].metodo # "robot"
          /\ cuadruplos[c].operador = "CREATE"
          /\ cuadruplos[c].resultado # tabla_simbolos[s].id
          /\ Lower(cuadruplos[c].resultado) = Lower(tabla_simbolos[s].id)
    /\ \E k \in 1..Len(cuadruplos) : cuadruplos[k].operador = "END_LOOP"

\* The cursor is at a repeat header ID.repetir = N { whose robot has not been
\* declared (no symbol of method robot with that id, in any letter case).
EnRepetirSinDeclarar ==
    /\ EnBucle
    /\ Caso(palabras, i) = "repetir"
    /\ ~RobotDeclarado(tabla_simbolos, SplitPor(palabra_actual, ".")[1])

\* C22: a repeat block whose header robot has not been declared earlier in the
\* script is rejected: the step of the repeat handler records an error and ends
\* the analysis, whose result has exito = false.
C22_RepetirSinDeclarar ==
    [][EnRepetirSinDeclarar => (pc' = "fin" /\ Len(errores') > Len(errores))]_vars

\* The cursor is at a repeat header ID.repetir = N { with N a number.
EnCabeceraConNumero ==
    /\ EnBucle
    /\ Caso(palabras, i) = "repetir"
    /\ Len(SplitPor(palabra_actual, ".")) = 2
    /\ MatchValor(W(palabras, i + 2))
    /\ ~IntExcede(W(palabras, i + 2))

\* C23: every BEGIN_LOOP quadruple has a repetition count in [1,100]; the step
\* at a repeat header whose count is outside [1,100] (0 and 101 among them)
\* ends the analysis with the error "Repeticiones fuera de rango" and emits
\* no quadruple.
C23_RepeticionesEnRango ==
    /\ [](\A k \in 1..Len(cuadruplos) :
            cuadruplos[k].operador = "BEGIN_LOOP" =>
                /\ MatchValor(cuadruplos[k].operando1)
                /\ Dentro(ValorDe(cuadruplos[k].operando1), <<1, 100>>))
    /\ [][(EnCabeceraConNumero /\ ~Dentro(ToInt(W(palabras, i + 2)), <<1, 100>>)) =>
            /\ pc' = "fin"
            /\ errores' = Append(errores, "Repeticiones fuera de rango: "
                                          \o Str(ToInt(W(palabras, i + 2)))
                                          \o " (rango: 1-100)")
            /\ cuadruplos' = cuadruplos]_vars

\* An analysis emitted a loop of 100 repetitions and ended at a header with
\* count 101, for which nothing was emitted.
C23_Witness ==
    /\ pc = "done"
    /\ ~resultado.exito
    /\ \E k \in 1..Len(cuadruplos) :
          cuadruplos[k].operador = "BEGIN_LOOP" /\ cuadruplos[k].operando1 = "100"
    /\ errores = <<"Repeticiones fuera de rango: 101 (rango: 1-100)">>
    /\ \A k \in 1..Len(cuadruplos) :
          cuadruplos[k].operador = "BEGIN_LOOP" => cuadruplos[k].operando1 # "101"

RECURSIVE LlaveQueCierra(_, _, _)
\* The 0-based position of the "}" token of pal[k..] that closes the outermost
\* of n open braces, Len(pal) when none does.
LlaveQueCierra(pal, k, n) ==
    IF k >= Len(pal) THEN Len(pal)
    ELSE IF W(pal, k) = "}" /\ n = 1 THEN k
    ELSE LlaveQueCierra(pal, k + 1,
                        IF W(pal, k) = "{" THEN n + 1
                        ELSE IF W(pal, k) = "}" THEN n - 1
                        ELSE n)

\* The body tokens of the repeat block whose header is at the cursor.
CuerpoEnCursor ==
    SubSeq(palabras, i + 5, LlaveQueCierra(palabras, i + 4, 1))

\* The robot part of the header token at the cursor.
RobotDeCabecera == SplitPor(palabra_actual, ".")[1]

\* Token t is written ID.something with ID another robot than id.
NombraOtroRobot(t, id) ==
    /\ Len(SplitPor(t, ".")) >= 2
    /\ Lower(SplitPor(t, ".")[1]) # Lower(id)

\* The quadruples the step at the cursor added.
CuadruplosNuevos == SubSeq(cuadruplos', Len(cuadruplos) + 1, Len(cuadruplos'))

\* C24: the quadruples a repeat block emits between its BEGIN_LOOP and its
\* END_LOOP are at least one SET_SPEED, MOVE or MOVE_NEG and each names the
\* robot of the header, compared without case; a block whose body names another
\* robot, or whose body is empty, ends the analysis with an error.
C24_CuerpoDelMismoRobot ==
    [][(EnCabeceraRepetir /\ SeCierra(palabras, i + 5, 1)) =>
        /\ (pc' = "loop" =>
              LET nuevos == CuadruplosNuevos IN
              /\ Len(nuevos) >= 3
              /\ nuevos[1].operador = "BEGIN_LOOP"
              /\ nuevos[Len(nuevos)].operador = "END_LOOP"
              /\ \A k \in 2..(Len(nuevos) - 1) :
                    /\ nuevos[k].operador \in {"SET_SPEED", "MOVE", "MOVE_NEG"}
                    /\ Lower(nuevos[k].operando1) = Lower(RobotDeCabecera))
        /\ ((\/ CuerpoEnCursor = <<>>
             \/ \E k \in 1..Len(CuerpoEnCursor) :
                    NombraOtroRobot(CuerpoEnCursor[k], RobotDeCabecera)) =>
              (pc' = "fin" /\ Len(errores') > Len(errores)))]_vars

\* The part of C24 about the emitted quadruples alone.
CuadruplosDelMismoRobot ==
    [][(EnCabeceraRepetir /\ SeCierra(palabras, i + 5, 1) /\ pc' = "loop") =>
        LET nuevos == CuadruplosNuevos IN
        /\ Len(nuevos) >= 3
        /\ \A k \in 2..(Len(nuevos) - 1) :
              /\ nuevos[k].operador \in {"SET_SPEED", "MOVE", "MOVE_NEG"}
              /\ Lower(nuevos[k].operando1) = Lower(RobotDeCabecera)]_vars

\* cuerpo[k..k+2] (1-based) is a statement ID.repetir = N.
EsSentenciaRepetir(cuerpo, k) ==
    /\ k + 2 <= Len(cuerpo)
    /\ Len(SplitPor(cuerpo[k], ".")) = 2
    /\ Lower(SplitPor(cuerpo[k], ".")[2]) = "repetir"
    /\ cuerpo[k + 1] = "="
    /\ MatchValor(cuerpo[k + 2])

\* In cs every BEGIN_LOOP is followed by an END_LOOP with no loop operator
\* between the two.
SinBuclesAnidados(cs) ==
    \A k \in 1..Len(cs) :
        cs[k].operador = "BEGIN_LOOP" =>
            \E m \in (k + 1)..Len(cs) :
                /\ cs[m].operador = "END_LOOP"
                /\ \A n \in (k + 1)..(m - 1) :
                      cs[n].operador \notin {"BEGIN_LOOP", "END_LOOP"}

\* C25: a repeat block whose body contains a statement ID.repetir = N ends the
\* analysis with an error, and the quadruples of a successful analysis have no
\* BEGIN_LOOP between a BEGIN_LOOP and its END_LOOP.
C25_SinAnidamiento ==
    /\ []((pc = "done" /\ resultado.exito) => SinBuclesAnidados(resultado.cuadruplos))
    /\ [][(/\ EnCabeceraRepetir
           /\ SeCierra(palabras, i + 5, 1)
           /\ \E k \in 1..Len(CuerpoEnCursor) : EsSentenciaRepetir(CuerpoEnCursor, k)) =>
            (pc' = "fin" /\ Len(errores') > Len(errores))]_vars

\* A block with a whole repeat block in its body was refused, after the block
\* of another analysis step had been accepted.
C25_Witness ==
    /\ pc = "done"
    /\ ~resultado.exito
    /\ \E k \in 1..Len(palabras) :
          /\ k + 7 <= Len(palabras)
          /\ Lower(palabras[k]) = "r1.repetir"
          /\ palabras[k + 3] = "{"
          /\ \E m \in (k + 4)..(Len(palabras) - 3) :
                /\ Lower(palabras[m]) = "r1.repetir"
                /\ palabras[m + 3] = "{"
                /\ \A n \in k..m : palabras[n] # "}"
    /\ resultado.errores =
          <<"Error en bloque de repetición: No se permite repetir anidado">>
    /\ \E k \in 1..Len(resultado.cuadruplos) :
          resultado.cuadruplos[k].operador = "END_LOOP"

\* The cursor is at a statement ID.repetir = N that no "{" follows, which the
\* dispatcher hands to the plain command handler.
EnRepetirSinBloque ==
    /\ EnBucle
    /\ Caso(palabras, i) = "comando"
    /\ Len(SplitPor(palabra_actual, ".")) = 2
    /\ Lower(SplitPor(palabra_actual, ".")[2]) = "repetir"
    /\ W(palabras, i + 1) = "="
    /\ ~(i + 3 < Len(palabras) /\ W(palabras, i + 3) = "{")

\* C26: a statement ID.repetir = N that is not followed by "{" ends the
\* analysis with an error, and the step adds no quadruple and no symbol for the
\* command repetir.
C26_RepetirSinBloqueRechazado ==
    [][EnRepetirSinBloque =>
        /\ pc' = "fin"
        /\ Len(errores') > Len(errores)
        /\ cuadruplos' = cuadruplos
        /\ \A k \in 1..Len(tabla_simbolos') :
              Lower(tabla_simbolos'[k].metodo) # "repetir"]_vars

\* str.upper() of one character and of a string.
UpperCh(c) ==
    LET k == IndexOf(c, Minusculas) IN IF k > 0 THEN Ch(Mayusculas, k) ELSE c

RECURSIVE Upper(_)
Upper(s) == IF s = "" THEN "" ELSE UpperCh(Ch(s, 1)) \o Upper(SubSeq(s, 2, Len(s)))

RECURSIVE UnirPuntos(_)
\* The parts of a token joined by "." again.
UnirPuntos(partes) ==
    IF Len(partes) = 0 THEN ""
    ELSE IF Len(partes) = 1 THEN partes[1]
    ELSE partes[1] \o "." \o UnirPuntos(Tail(partes))

\* Token t with the letter case changed: the whole token, or one of its
\* dot-separated parts, in upper or in lower case.
VariantesDeToken(t) ==
    LET partes == SplitPor(t, ".") IN
    {Upper(t), Lower(t)} \union
    (IF UnirPuntos(partes) = t
     THEN {UnirPuntos([partes EXCEPT ![p] = Upper(@)]) : p \in 1..Len(partes)} \union
          {UnirPuntos([partes EXCEPT ![p] = Lower(@)]) : p \in 1..Len(partes)}
     ELSE {})

\* Token list pal with the letter case changed: every token in upper case,
\* every token in lower case, or one token changed.
VariantesDeCaso(pal) ==
    {[k \in 1..Len(pal) |-> Upper(pal[k])], [k \in 1..Len(pal) |-> Lower(pal[k])]} \union
    UNION {{[pal EXCEPT ![k] = v] : v \in VariantesDeToken(pal[k])} : k \in 1..Len(pal)}

\* A quadruple without the robot identifier it names.
FormaDeCuadruplo(q) ==
    IF q.operador = "CREATE" THEN [q EXCEPT !.resultado = ""]
    ELSE IF q.operador \in {"SET_SPEED", "MOVE", "MOVE_NEG"} THEN [q EXCEPT !.operando1 = ""]
    ELSE q

\* Whether the analysis succeeded, and its quadruples without robot identifiers.
FormaDeResultado(res) ==
    [exito |-> res.exito,
     cuadruplos |-> [k \in 1..Len(res.cuadruplos) |-> FormaDeCuadruplo(res.cuadruplos[k])]]

\* The result of the analysis of token list pal by a new analyzer.
ResultadoDeTokens(pal) == Compilar(BucleDesde(LimpiarEstado(InstanciaNueva), pal, 0))

\* C27: the analysis of a script and that of the same script with the letter
\* case of its keywords, command names, negativo suffixes or robot identifiers
\* changed agree on success and on the operators, values, components and loop
\* structure of the quadruples.
C27_SinDistincionDeCaso ==
    (pc = "done" /\ previo = "ninguno" /\ entrada.tipo = "str") =>
        \A v \in VariantesDeCaso(palabras) :
            FormaDeResultado(ResultadoDeTokens(v)) = FormaDeResultado(resultado)

\* A script in mixed case with a declaration, a negative move and a loop was
\* accepted, and so was the same script in lower case, with the same quadruples.
C27_Witness ==
    /\ pc = "done"
    /\ previo = "ninguno"
    /\ resultado.exito
    /\ palabras[1] = "ROBOT"
    /\ \E k \in 1..Len(palabras) : palabras[k] = "r1.Codo.Negativo"
    /\ \E k \in 1..Len(palabras) : palabras[k] = "r1.Repetir"
    /\ \E k \in 1..Len(resultado.cuadruplos) :
          resultado.cuadruplos[k].operador = "BEGIN_LOOP"
    /\ Len(resultado.cuadruplos) = 9
    /\ LET v == [k \in 1..Len(palabras) |-> Lower(palabras[k])] IN
       /\ v # palabras
       /\ FormaDeResultado(ResultadoDeTokens(v)) = FormaDeResultado(resultado)

\* C28: when a repeat block is accepted, the tokens between its opening brace
\* and its matching closing brace are exactly a sequence of three-token
\* statements ID.command = value or ID.command.negativo = value, each one valid
\* for the robot of the header; no body token is left out of a statement.
C28_CuerpoSinTokensSueltos ==
    [][(EnCabeceraRepetir /\ SeCierra(palabras, i + 5, 1) /\ pc' = "loop") =>
        EsCuerpoValido(CuerpoEnCursor, RobotDeCabecera)]_vars

\* The cursor a successful handler must return for the statement at the cursor:
\* two tokens on for a declaration, three for an assignment, the position after
\* the matching closing brace for a repeat block; no other token has one.
CursorEsperado ==
    LET caso == Caso(palabras, i) IN
    IF caso = "robot" THEN i + 2
    ELSE IF caso = "comando" THEN i + 3
    ELSE IF caso = "repetir" THEN LlaveQueCierra(palabras, i + 4, 1) + 1
    ELSE -1

\* C29: the analysis of a token list ends. A handler that succeeds returns a
\* cursor greater than the one it got (declaration + 2, assignment + 3, repeat
\* block the position after its matching closing brace) and within the list; a
\* handler that fails ends the loop with an error; after the loop the result is
\* compiled, so the distance to the end of the list decreases until the call
\* returns.
C29_Termina ==
    /\ [](pc = "loop" => (0 <= i /\ i <= Len(palabras)))
    /\ [][EnBucle =>
            \/ pc' = "fin" /\ Len(errores') = Len(errores) + 1
            \/ /\ pc' = "loop"
               /\ errores' = errores
               /\ i' = CursorEsperado
               /\ i' > i
               /\ i' <= Len(palabras)]_vars
    /\ [][pc = "fin" => (pc' = "done" /\ ~resultado'.exito)]_vars
    /\ [][(pc = "loop" /\ i >= Len(palabras)) => pc' = "done"]_vars

\* A declaration, an assignment and a repeat block were accepted in turn and
\* the call returned with the cursor at the end of the thirteen tokens.
C29_Witness ==
    /\ pc = "done"
    /\ resultado.exito
    /\ palabras = Split("Robot R1 R1.garra = 10 R1.repetir = 1 { R1.base = 1 }")
    /\ i = 13
    /\ Len(resultado.cuadruplos) = 7

\* C30: a declaration Robot ID that succeeds is one of an identifier not yet
\* declared; it appends the symbol {ID, robot, 0, 0}, sets the velocity
\* registry entry of ID in lower case to 5, appends the quadruple
\* CREATE(Robot, --, ID), and leaves every other symbol, registry entry and
\* quadruple, and the errors, as they were.
C30_EfectoDeDeclaracion ==
    [][(EnBucle /\ Caso(palabras, i) = "robot" /\ pc' = "loop") =>
        LET id == W(palabras, i + 1) IN
        /\ \A k \in 1..Len(tabla_simbolos) :
              ~(tabla_simbolos[k].metodo = "robot"
                /\ Lower(tabla_simbolos[k].id) = Lower(id))
        /\ tabla_simbolos' =
              Append(tabla_simbolos,
                     [id |-> id, metodo |-> "robot", parametro |-> 0, valor |-> 0])
        /\ DOMAIN velocidades_por_robot' = DOMAIN velocidades_por_robot \cup {Lower(id)}
        /\ velocidades_por_robot'[Lower(id)] = 5
        /\ \A r \in DOMAIN velocidades_por_robot \ {Lower(id)} :
              velocidades_por_robot'[r] = velocidades_por_robot[r]
        /\ cuadruplos' =
              Append(cuadruplos,
                     [operador |-> "CREATE", operando1 |-> "Robot",
                      operando2 |-> Raya, resultado |-> id])
        /\ errores' = errores
        /\ i' = i + 2]_vars

\* R2 was declared after R1 had been given the speed 7: the registry holds 7
\* for r1 and 5 for r2, and the symbol and the CREATE of R2 come last.
C30_Witness ==
    /\ pc = "loop"
    /\ palabras = Split("Robot R1 R1.VELOCIDAD = 7 Robot R2")
    /\ i = 7
    /\ DOMAIN velocidades_por_robot = {"r1", "r2"}
    /\ velocidades_por_robot["r1"] = 7
    /\ velocidades_por_robot["r2"] = 5
    /\ Len(tabla_simbolos) = 3
    /\ tabla_simbolos[3] = [id |-> "R2", metodo |-> "robot", parametro |-> 0, valor |-> 0]
    /\ cuadruplos[Len(cuadruplos)].operador = "CREATE"
    /\ cuadruplos[Len(cuadruplos)].resultado = "R2"

\* The operators of the quadruple language.
Operadores == {"CREATE", "SET_SPEED", "MOVE", "MOVE_NEG", "BEGIN_LOOP", "END_LOOP"}

\* The operators that occur in cs.
OperadoresDe(cs) == {cs[k].operador : k \in 1..Len(cs)}

\* C31: every operator the analyzer emits is CREATE, SET_SPEED, MOVE, MOVE_NEG,
\* BEGIN_LOOP or END_LOOP, and the executor, which runs the quadruples of
\* successful analyses only, never has an END_LOOP or an unknown operator as
\* the quadruple of its while loop and never misses the END_LOOP of a loop.
C31_VocabularioComun ==
    /\ OperadoresDe(cuadruplos) \subseteq Operadores
    /\ OperadoresDe(resultado.cuadruplos) \subseteq Operadores
    /\ ejecutor.pc # "roto"
    /\ EnPrincipal =>
          ejecutor.cuadruplos[ejecutor.i + 1].operador \in Operadores \ {"END_LOOP"}
    /\ (app_pc = "ejecutor" /\ ejecutor.pc = "bucle") =>
          /\ ejecutor.indice_end_loop >= 0
          /\ OperadoresDe(ejecutor.comandos_bucle) \subseteq {"SET_SPEED", "MOVE", "MOVE_NEG"}

\* The executor ran to the end of a list in which all six operators occur.
C31_Witness ==
    /\ ejecutor.pc = "fin"
    /\ OperadoresDe(ejecutor.cuadruplos) = Operadores
    /\ ejecutor.i = Len(ejecutor.cuadruplos)
    /\ Len(ejecutados) >= Len(ejecutor.cuadruplos)

\* The step is a call of establecer_delay, or of mover_componente on the
\* component velocidad, on the controller rc.
EsLlamadaDeDelay ==
    \/ rc_llamada'.metodo = "establecer_delay"
    \/ rc_llamada'.metodo = "mover_componente" /\ Lower(rc_llamada'.componente) = "velocidad"

\* What the step does with delay d: accepted exactly within 1-60, and then the
\* delay is d; refused otherwise, and then the delay and the history stay.
EfectoDeDelay(d) ==
    IF 1 <= d /\ d <= 60
    THEN /\ rc_llamada'.ret
         /\ rc'.delay_actual = d
    ELSE /\ ~rc_llamada'.ret
         /\ rc'.delay_actual = rc.delay_actual
         /\ rc'.historial_velocidades = rc.historial_velocidades

\* No joint moves and no movement is counted in the step.
SinMovimiento ==
    /\ rc'.posicion_actual = rc.posicion_actual
    /\ rc'.contador_movimientos = rc.contador_movimientos

\* C32 as stated: establecer_delay(d) and mover_componente('velocidad', d)
\* both return True and set the delay exactly when 1 <= d <= 60, and otherwise
\* return False and keep the delay and the history; neither moves a joint.
C32_Original ==
    [][EsLlamadaDeDelay => (EfectoDeDelay(rc_llamada'.valor) /\ SinMovimiento)]_vars

\* C32: establecer_delay(d) returns True and sets the delay exactly when
\* 1 <= d <= 60, and otherwise returns False and keeps the delay and the
\* history; mover_componente('velocidad', d) on a connected controller does
\* the same, on a controller that is not connected it returns False and
\* changes nothing; neither moves a joint.
C32_DelaySoloEnRango ==
    [][EsLlamadaDeDelay =>
        /\ SinMovimiento
        /\ IF rc_llamada'.metodo = "mover_componente" /\ ~rc.conectado
           THEN ~rc_llamada'.ret /\ rc' = rc
           ELSE EfectoDeDelay(rc_llamada'.valor)]_vars

\* After establecer_delay(60), mover_componente('velocidad', 10) on the
\* connected controller returned True and set the delay to 10.
C32_Witness ==
    /\ rc_llamada = [metodo |-> "mover_componente", componente |-> "velocidad",
                     valor |-> 10, ret |-> TRUE]
    /\ rc.conectado
    /\ rc.delay_actual = 10
    /\ rc.historial_velocidades =
          <<<<"Cambio de velocidad", 5, 60>>, <<"Cambio de velocidad", 60, 10>>>>
    /\ rc.posicion_actual = PosicionRobot

\* The limit of component c (in lower case) lets value v through; an unknown
\* component lets nothing through.
DentroDeLimite(c, v) ==
    IF c = "base" \/ c = "garra" THEN -360 <= v /\ v <= 360
    ELSE IF c = "hombro" \/ c = "codo" THEN -180 <= v /\ v <= 180
    ELSE IF c = "muñeca1" THEN -160 <= v /\ v <= 160
    ELSE IF c = "muñeca2" THEN -120 <= v /\ v <= 120
    ELSE IF c = "muñeca3" THEN -400 <= v /\ v <= 400
    ELSE IF c = "velocidad" THEN 1 <= v /\ v <= 60
    ELSE FALSE

\* C33: mover_componente on a controller that is not connected, on an unknown
\* component or with a value outside the component's limit returns False and
\* leaves the positions, the delay, the movement counter and the history as
\* they were; a position changes or a movement is counted only in a call of
\* mover_componente on a connected controller with a value within the limit,
\* and then exactly one movement is counted.
C33_MovimientoSoloConectado ==
    /\ [][(/\ rc_llamada'.metodo = "mover_componente"
           /\ \/ ~rc.conectado
              \/ ~DentroDeLimite(Lower(rc_llamada'.componente), rc_llamada'.valor)) =>
            (~rc_llamada'.ret /\ rc' = rc)]_vars
    /\ [][(\/ rc'.posicion_actual # rc.posicion_actual
           \/ rc'.contador_movimientos # rc.contador_movimientos) =>
            /\ rc_llamada'.metodo = "mover_componente"
            /\ rc.conectado
            /\ Lower(rc_llamada'.componente) # "velocidad"
            /\ DentroDeLimite(Lower(rc_llamada'.componente), rc_llamada'.valor)
            /\ rc_llamada'.ret
            /\ rc'.contador_movimientos = rc.contador_movimientos + 1]_vars

\* The base was moved to 61 while connected; after desconectar the call
\* mover_componente('base', 10) returned False and the base stayed at 61.
C33_Witness ==
    /\ rc_llamada = [metodo |-> "mover_componente", componente |-> "base",
                     valor |-> 10, ret |-> FALSE]
    /\ ~rc.conectado
    /\ rc.posicion_actual["base"] = 61
    /\ rc.contador_movimientos = 1
    /\ rc.historial_velocidades = <<<<"Movimiento", 1, "base", 61, 5>>>>

\* C36: in every state of the controller in simulation mode the position of
\* the gripper equals the position of axis 6 (muñeca3).
C36_GarraEsEje6 == rc.posicion_actual["garra"] = rc.posicion_actual["muñeca3"]

\* C34: a statement that fails contributes nothing: the step that ends the
\* loop of the dispatcher with an error leaves the symbol table and the
\* quadruple list as they were when the statement began, so that a refused
\* repeat block leaves no BEGIN_LOOP and no body quadruple behind.
C34_FalloSinRastro ==
    [][(EnBucle /\ pc' = "fin") =>
        (cuadruplos' = cuadruplos /\ tabla_simbolos' = tabla_simbolos)]_vars

\* C35: in the quadruple list of every result, each SET_SPEED, MOVE and
\* MOVE_NEG names a robot that a CREATE earlier in the list names, compared
\* without case.
C35_MovimientoTrasCreate ==
    pc = "done" =>
        \A k \in 1..Len(resultado.cuadruplos) :
            resultado.cuadruplos[k].operador \in {"SET_SPEED", "MOVE", "MOVE_NEG"} =>
                \E m \in 1..(k - 1) :
                    /\ resultado.cuadruplos[m].operador = "CREATE"
                    /\ Lower(resultado.cuadruplos[m].resultado) =
                          Lower(resultado.cuadruplos[k].operando1)

\* The step of analizar_codigo that starts a thread: the button goes from
\* enabled to disabled.
EmpiezaAnalisis == boton_habilitado /\ ~boton_habilitado'

\* The thread has run and the slots of its signals have not all returned.
CorridaEnCurso == app_pc \in {"hilo", "senales", "ejecutor"}

\* C37: at most one analysis-and-execution is in flight in the window. The
\* analyse button is disabled exactly from analizar_codigo until
\* on_analysis_finished; while the executor runs, cuadruplos_ready has been
\* delivered and analysis_finished is the one signal still waiting; an
\* analysis starts only when no thread runs, no signal waits and no quadruple
\* is being executed, and it starts on an analyser of its own; and the fields
\* of the analyser are written by no step other than that start and the steps
\* of its thread.
C37_UnaSolaCorrida ==
    /\ [](boton_habilitado <=> ~CorridaEnCurso)
    /\ [](app_pc = "ejecutor" =>
            /\ Len(pendientes) = 1
            /\ pendientes[1].senal = "analysis_finished")
    /\ [][EmpiezaAnalisis =>
            /\ app_pc = "listo"
            /\ pendientes = <<>>
            /\ ejecutor.pc \notin {"principal", "bucle", "roto"}
            /\ pc' = "idle"
            /\ campos' = <<InstanciaNueva.tabla_simbolos, InstanciaNueva.cuadruplos,
                           InstanciaNueva.contador_cuadruplos, InstanciaNueva.errores,
                           InstanciaNueva.velocidades_por_robot>>]_vars
    /\ [][(campos' # campos \/ pc' # pc) => (EmpiezaAnalisis \/ app_pc = "hilo")]_vars

\* C37 witness: the executor is inside the loop of a repeat block of the run
\* in flight, the button is disabled and analysis_finished waits.
C37_Witness ==
    /\ app_pc = "ejecutor"
    /\ ejecutor.pc = "bucle"
    /\ ~boton_habilitado
    /\ Len(pendientes) = 1
    /\ pendientes[1].senal = "analysis_finished"
    /\ Len(ejecutados) > 0

\* C38: a call of analizar on an empty or whitespace-only string returns
\* exito false, exactly one error, and empty symbol and quadruple lists,
\* whatever the instance held from the call before; the lists of the instance
\* are empty too.
C38_EntradaVacia ==
    (pc = "done" /\ entrada.tipo = "str" /\ Strip(entrada.texto) = "") =>
        /\ resultado.exito = FALSE
        /\ Len(resultado.errores) = 1
        /\ resultado.tabla_simbolos = <<>>
        /\ resultado.cuadruplos = <<>>
        /\ tabla_simbolos = <<>>
        /\ cuadruplos = <<>>

\* C38 witness: the one blank of the inputs has been analysed on an instance
\* whose call before succeeded, and the error is the one of the empty code.
C38_Witness ==
    /\ pc = "done"
    /\ entrada = Texto(" ")
    /\ previo = "exito"
    /\ resultado.errores = <<"Código vacío">>
    /\ ~resultado.exito

\* The empty string has been analysed too.
C38_WitnessVacia ==
    /\ pc = "done"
    /\ entrada = Texto("")
    /\ resultado.errores = <<"Código vacío">>

====
